---- MODULE Spec2Model ----
(***************************************************************************)
(* Monitoring / analysis pipeline of kube-tui-aid.                         *)
(*                                                                         *)
(* The backing store (cluster_metrics, monitoring_alerts, smart_alerts,    *)
(* pod_health, cluster_health_scores, ...) is the shared state.  Every     *)
(* edge function is a sequence of awaited store calls; one action models   *)
(* the code between two awaits, so that passes running at the same time    *)
(* interleave exactly where the code yields.                               *)
(***************************************************************************)
EXTENDS Integers, Sequences, FiniteSets, TLC

VARIABLES
    cluster_metrics,    \* table cluster_metrics, in insertion order
    monitoring_alerts,  \* table monitoring_alerts, row id = index
    pod_health,         \* table pod_health, one row per container
    cluster_events,     \* table cluster_events, one row per event_uid
    smart_alerts,       \* table smart_alerts, row id = index
    tm,                 \* prometheus-monitor invocations, one per worker
    sm,                 \* monitor-clusters invocations, one per worker
    cluster_health_scores,      \* table cluster_health_scores
    slack_webhooks,             \* table slack_webhooks of the calling user
    notification_preferences,   \* table notification_preferences of that user
    si,                         \* the slack-integration invocation in progress
    notified,                   \* alert ids slack-integration was called with
    event_correlations,         \* table event_correlations
    pod_restart_trends,         \* table pod_restart_trends
    intelligent_suggestions,    \* table intelligent_suggestions
    ia,                         \* the intelligent-analysis invocation in progress
    ai,                         \* what the suggestion model answers, per alert
    prometheus_targets,         \* table prometheus_targets, row id = index
    cp,                         \* the collectPrometheusMetrics call in progress
    cluster_configs,            \* table cluster_configs
    pass,                       \* the serve loop of one edge function
    api_events,         \* the events the cluster's API server lists, by uid
    last                \* what the most recent store-visible step did

(* Time is kept as the age of a row's timestamp: age = now - timestamp, in
   minutes.  A write that stamps now() sets the age to 0. *)

vars == <<cluster_metrics, monitoring_alerts, pod_health, cluster_events,
          smart_alerts, tm, sm, cluster_health_scores, slack_webhooks,
          notification_preferences, si, notified, event_correlations,
          pod_restart_trends, intelligent_suggestions, ia, ai,
          prometheus_targets, cp, cluster_configs, pass, api_events, last>>

(* the monitored cluster itself, which no edge function writes *)
clusterVars == <<api_events>>
thresholdVars == <<cluster_metrics, monitoring_alerts, tm>>
smartVars == <<pod_health, cluster_events, smart_alerts, sm, clusterVars>>
healthVars == <<cluster_health_scores>>
notifyVars == <<slack_webhooks, notification_preferences, si, notified>>
(* the tables neither monitor writes *)
analysisVars == <<event_correlations, pod_restart_trends,
                  intelligent_suggestions, ia, ai>>
collectVars == <<prometheus_targets, cp>>
passVars == <<cluster_configs, pass>>
restVars == <<analysisVars, collectVars, passVars>>
sideVars == <<healthVars, notifyVars, restVars, clusterVars>>

-----------------------------------------------------------------------------
(* Bounds of the model *)

MaxMetrics == 2
MaxAlerts == 3
MaxSmartAlerts == 2
MaxOccurrences == 3
MaxHealthSamples == 2
MaxHealthPods == 3
MaxScores == 2
MaxWebhooks == 2
MaxPreferences == 2

(* SQL NULL / JS undefined for an optional column *)
Null == "NULL"
(* `data` of a .single() fetch that yielded no row *)
NoRow == 0

Clusters == {"c1"}
Workers == {1, 2}
Nodes == {Null, "n1"}

(* metric_type values the query catalog produces *)
AllMetricTypes == {"cpu", "memory", "disk", "network", "pod_count"}

(* sample values around every threshold of the table *)
BoundaryValues == {0, 79, 80, 84, 85, 89, 90, 94, 95, 100}

(* sample domains of the stateful specifications *)
MetricTypes == {"cpu"}
MetricValues == {80, 95}

-----------------------------------------------------------------------------
(* checkMetricThresholds: pure parts *)

ThresholdWindow == 2

HasThreshold(type) == type \in {"cpu", "memory", "disk"}

Critical(type) ==
    CASE type = "cpu" -> 90
      [] type = "memory" -> 95
      [] type = "disk" -> 95

Warning(type) ==
    CASE type = "cpu" -> 80
      [] type = "memory" -> 85
      [] type = "disk" -> 90

(* the if-chain with the warning test first *)
ClassifyWarningFirst(type, value) ==
    IF ~HasThreshold(type) THEN [severity |-> "none", thresholdValue |-> 0]
    ELSE IF value >= Warning(type)
         THEN [severity |-> "warning", thresholdValue |-> Warning(type)]
    ELSE IF value >= Critical(type)
         THEN [severity |-> "critical", thresholdValue |-> Critical(type)]
    ELSE [severity |-> "none", thresholdValue |-> 0]

(* the if-chain on metric.value: [severity, thresholdValue]; severity null
   is "none" *)
Classify(type, value) ==
    IF ~HasThreshold(type) THEN [severity |-> "none", thresholdValue |-> 0]
    ELSE IF value >= Critical(type)
         THEN [severity |-> "critical", thresholdValue |-> Critical(type)]
    ELSE IF value >= Warning(type)
         THEN [severity |-> "warning", thresholdValue |-> Warning(type)]
    ELSE [severity |-> "none", thresholdValue |-> 0]

AlertTypeOf(type) ==
    CASE type = "cpu" -> "cpu_pressure"
      [] type = "memory" -> "memory_pressure"
      [] type = "disk" -> "disk_pressure"
      [] type = "network" -> "network_pressure"
      [] type = "pod_count" -> "pod_count_pressure"

ToUpperCase(type) ==
    CASE type = "cpu" -> "CPU"
      [] type = "memory" -> "MEMORY"
      [] type = "disk" -> "DISK"
      [] type = "network" -> "NETWORK"
      [] type = "pod_count" -> "POD_COUNT"

(* JS `x || dflt` on an optional string *)
OrElse(x, dflt) == IF x = Null \/ x = "" THEN dflt ELSE x

(* SQL `column = value`: never true of a NULL column *)
SqlEq(column, value) == column # Null /\ column = value

(* the message template, as the tuple of its interpolated parts *)
AlertMessage(metric, severity, thresholdValue) ==
    <<ToUpperCase(metric.metric_type), metric.value, severity, thresholdValue,
      OrElse(metric.node_name, "cluster")>>

NewAlert(metric, severity, thresholdValue) ==
    [cluster_id |-> metric.cluster_id,
     alert_type |-> AlertTypeOf(metric.metric_type),
     severity |-> severity,
     threshold_value |-> thresholdValue,
     current_value |-> metric.value,
     node_name |-> metric.node_name,
     message |-> AlertMessage(metric, severity, thresholdValue),
     acknowledged |-> FALSE,
     resolved |-> FALSE]

(* an existence query that asks for resolved rows *)
ResolvedAlertRows(alerts, metric) ==
    {i \in DOMAIN alerts :
        /\ alerts[i].cluster_id = metric.cluster_id
        /\ alerts[i].alert_type = AlertTypeOf(metric.metric_type)
        /\ SqlEq(alerts[i].node_name, OrElse(metric.node_name, ""))
        /\ alerts[i].resolved = TRUE}

(* rows matched by the existence query of checkMetricThresholds *)
ExistingAlertRows(alerts, metric) ==
    {i \in DOMAIN alerts :
        /\ alerts[i].cluster_id = metric.cluster_id
        /\ alerts[i].alert_type = AlertTypeOf(metric.metric_type)
        /\ SqlEq(alerts[i].node_name, OrElse(metric.node_name, ""))
        /\ alerts[i].resolved = FALSE}

(* .single(): data is the row when exactly one row matches, null otherwise *)
Single(rows) == IF Cardinality(rows) = 1 THEN CHOOSE i \in rows : TRUE ELSE NoRow

ExistingAlert(alerts, metric) == Single(ExistingAlertRows(alerts, metric))

(* .gte('timestamp', now - window).order('timestamp', descending); a row's
   age is now - timestamp in minutes, and rows are stored oldest first *)
RECURSIVE RecentMetrics(_, _, _, _)
RecentMetrics(metrics, cluster, window, i) ==
    IF i = 0 THEN <<>>
    ELSE IF metrics[i].cluster_id = cluster /\ metrics[i].age <= window
         THEN <<metrics[i]>> \o RecentMetrics(metrics, cluster, window, i - 1)
         ELSE RecentMetrics(metrics, cluster, window, i - 1)

(* `step` minutes pass: every timestamp of `rows` is `step` minutes older.
   Ages beyond `cap` are not told apart (no query tells them apart) *)
RECURSIVE Aged(_, _, _)
Aged(rows, step, cap) ==
    IF rows = <<>> THEN <<>>
    ELSE <<[Head(rows) EXCEPT !.age = IF @ + step > cap THEN cap ELSE @ + step]>>
            \o Aged(Tail(rows), step, cap)

(* refresh-on-duplicate: the found row takes the new sample's value *)
RefreshExisting(alerts, id, metric) ==
    [alerts EXCEPT ![id].current_value = metric.value]

(* existing row kept as it is when the existence query finds it *)
KeepExisting(alerts, id, metric) == alerts

-----------------------------------------------------------------------------
(* prometheus-monitor: one invocation per worker, one cluster at a time *)

IdleTm == [pc |-> "idle", cluster |-> Null, metrics |-> <<>>]

NoStep == [op |-> "none"]

TmInit ==
    /\ cluster_metrics = <<>>
    /\ monitoring_alerts = <<>>
    /\ tm = [w \in Workers |-> IdleTm]

ThresholdTick ==
    /\ cluster_metrics' = Aged(cluster_metrics, 1, ThresholdWindow + 1)
    /\ cluster_metrics' # cluster_metrics
    /\ last' = NoStep
    /\ UNCHANGED <<monitoring_alerts, tm, smartVars, sideVars>>

(* serve: the loop over clusters reaches `cluster` *)
StartPrometheusPass(w, cluster) ==
    /\ tm[w].pc = "idle"
    /\ tm' = [tm EXCEPT ![w] = [IdleTm EXCEPT !.pc = "collect", !.cluster = cluster]]
    /\ last' = NoStep
    /\ UNCHANGED <<cluster_metrics, monitoring_alerts, smartVars, sideVars>>

(* collectPrometheusMetrics: one series of one query result is stored *)
CollectMetric(w, type, value, node) ==
    /\ tm[w].pc = "collect"
    /\ Len(cluster_metrics) < MaxMetrics
    /\ cluster_metrics' = Append(cluster_metrics,
            [cluster_id |-> tm[w].cluster, metric_type |-> type, value |-> value,
             node_name |-> node, age |-> 0])
    /\ last' = NoStep
    /\ UNCHANGED <<monitoring_alerts, tm, smartVars, sideVars>>

(* checkMetricThresholds: the query for the recent metrics *)
ReadRecentMetrics(w) ==
    /\ tm[w].pc = "collect"
    /\ LET metrics == RecentMetrics(cluster_metrics, tm[w].cluster,
                                    ThresholdWindow, Len(cluster_metrics))
       IN tm' = [tm EXCEPT ![w] =
                    IF metrics = <<>> THEN IdleTm
                    ELSE [@ EXCEPT !.pc = "check", !.metrics = metrics]]
    /\ last' = NoStep
    /\ UNCHANGED <<cluster_metrics, monitoring_alerts, smartVars, sideVars>>

(* after one sample is done: next sample, or return {alertsCreated} *)
NextSample(t) ==
    IF Len(t.metrics) = 1 THEN IdleTm
    ELSE [t EXCEPT !.pc = "check", !.metrics = Tail(t.metrics)]

(* checkMetricThresholds: severity of the next sample and the existence query *)
CheckSample(w) ==
    /\ tm[w].pc = "check"
    /\ LET metric == Head(tm[w].metrics)
           severity == Classify(metric.metric_type, metric.value).severity
           existingAlert == ExistingAlert(monitoring_alerts, metric)
       IN IF severity = "none"
          THEN /\ tm' = [tm EXCEPT ![w] = NextSample(@)]
               /\ last' = [op |-> "no_violation", metric |-> metric, id |-> NoRow]
               /\ UNCHANGED monitoring_alerts
          ELSE IF existingAlert # NoRow
          THEN /\ tm' = [tm EXCEPT ![w] = NextSample(@)]
               /\ last' = [op |-> "found", metric |-> metric, id |-> existingAlert]
               /\ monitoring_alerts' =
                        KeepExisting(monitoring_alerts, existingAlert, metric)
          ELSE /\ tm' = [tm EXCEPT ![w].pc = "insert"]
               /\ last' = [op |-> "not_found", metric |-> metric, id |-> NoRow]
               /\ UNCHANGED monitoring_alerts
    /\ UNCHANGED <<cluster_metrics, smartVars, sideVars>>

(* checkMetricThresholds: the insert that follows a lookup without a row *)
InsertAlert(w) ==
    /\ tm[w].pc = "insert"
    /\ Len(monitoring_alerts) < MaxAlerts
    /\ LET metric == Head(tm[w].metrics)
           class == Classify(metric.metric_type, metric.value)
       IN /\ monitoring_alerts' = Append(monitoring_alerts,
                    NewAlert(metric, class.severity, class.thresholdValue))
          /\ last' = [op |-> "insert", metric |-> metric,
                      id |-> Len(monitoring_alerts) + 1]
    /\ tm' = [tm EXCEPT ![w] = NextSample(@)]
    /\ UNCHANGED <<cluster_metrics, smartVars, sideVars>>

(* ClusterHealthDashboard: the Acknowledge button of an unacknowledged alert *)
AcknowledgeAlert(alertId) ==
    /\ alertId \in DOMAIN monitoring_alerts
    /\ ~monitoring_alerts[alertId].resolved
    /\ ~monitoring_alerts[alertId].acknowledged
    /\ monitoring_alerts' = [monitoring_alerts EXCEPT ![alertId].acknowledged = TRUE]
    /\ last' = [op |-> "acknowledge", id |-> alertId]
    /\ UNCHANGED <<cluster_metrics, tm, smartVars, sideVars>>

TmStep(w) ==
    \/ \E type \in MetricTypes, value \in MetricValues, node \in Nodes :
            CollectMetric(w, type, value, node)
    \/ ReadRecentMetrics(w)
    \/ CheckSample(w)
    \/ InsertAlert(w)

-----------------------------------------------------------------------------
(* monitor-clusters: pure parts *)

AlertWindow == 5
CrashLoopRestarts == 5

Pods == {"p1"}
Containers == {"a"}
EventUids == {"e1"}

(* what the cluster API reports for one container: restartCount and the
   reason / exit code of lastState.terminated (Null when there is none) *)
RestartCounts == {0, 5}
Terminations == {[reason |-> Null, exitCode |-> Null],
                 [reason |-> "OOMKilled", exitCode |-> 137],
                 [reason |-> "Error", exitCode |-> 1]}
PodPhases == {"Running", "Failed"}
EventReasons == {"Unhealthy", "Started"}

(* monitorPodHealth: the upserted row; the insert default and the
   update trigger both stamp updated_at = now() *)
PodHealthRow(cluster, pod, container, restartCount, terminated, phase) ==
    [cluster_id |-> cluster,
     pod_name |-> pod,
     container_name |-> container,
     restart_count |-> restartCount,
     exit_code |-> terminated.exitCode,
     exit_reason |-> terminated.reason,
     oom_killed |-> (terminated.reason = "OOMKilled"),
     status |-> phase,
     age |-> 0]

(* an insert that ignores the conflict target *)
AppendPodHealth(rows, row) == Append(rows, row)

(* upsert with onConflict cluster_id,pod_name,namespace,container_name *)
UpsertPodHealth(rows, row) ==
    LET same == {i \in DOMAIN rows : /\ rows[i].cluster_id = row.cluster_id
                                      /\ rows[i].pod_name = row.pod_name
                                      /\ rows[i].container_name = row.container_name}
    IN IF same = {} THEN Append(rows, row)
       ELSE [rows EXCEPT ![CHOOSE i \in same : TRUE] = row]

(* the uids the API server can list, the reason each event carries, and the
   list before anything happened: count 0 stands for an event not yet listed *)
ObservedUids == {"e1", "e2"}
ReasonOf(uid) == IF uid = "e1" THEN "Unhealthy" ELSE "Started"
NoEvents == [uid \in ObservedUids |-> [count |-> 0, lastTimestamp |-> <<>>]]

(* event.count || 1, where 0 also stands for a count the item leaves out *)
CountOrOne(count) == IF count = 0 THEN 1 ELSE count

(* monitorClusterEvents: the upserted row; lastTimestamp is <<>> for null
   and <<t>> for the time t *)
EventRow(cluster, uid, name, reason, count, lastTimestamp) ==
    [cluster_id |-> cluster, event_uid |-> uid, name |-> name,
     reason |-> reason, message |-> <<reason, name>>,
     count |-> CountOrOne(count), last_timestamp |-> lastTimestamp, age |-> 0]

(* an insert that ignores the conflict target *)
AppendEvent(rows, row) == Append(rows, row)

(* upsert with onConflict cluster_id,event_uid; created_at is not in the
   payload, so an existing row keeps it *)
UpsertEvent(rows, row) ==
    LET same == {i \in DOMAIN rows : /\ rows[i].cluster_id = row.cluster_id
                                      /\ rows[i].event_uid = row.event_uid}
    IN IF same = {} THEN Append(rows, row)
       ELSE LET i == CHOOSE k \in same : TRUE
            IN [rows EXCEPT ![i] = [row EXCEPT !.age = rows[i].age]]

(* analyzeAndCreateAlerts: the alertData built from the rows of each query *)
OomAlert(pod) ==
    [cluster_id |-> pod.cluster_id, alert_type |-> "oomkill",
     severity |-> "critical", resource_name |-> pod.pod_name,
     description |-> <<"oomkill", pod.container_name>>]

CrashLoopAlert(pod) ==
    [cluster_id |-> pod.cluster_id, alert_type |-> "crash_loop",
     severity |-> "critical", resource_name |-> pod.pod_name,
     description |-> <<"crash_loop", ToString(pod.restart_count),
                       ToString(pod.exit_code), ToString(pod.exit_reason)>>]

ProbeAlert(event) ==
    [cluster_id |-> event.cluster_id, alert_type |-> "liveness_failed",
     severity |-> "warning", resource_name |-> event.name,
     description |-> <<"liveness_failed", event.message>>]

OomPods(cluster) ==
    LET Keep(r) == r.cluster_id = cluster /\ r.oom_killed /\ r.age <= AlertWindow
        rows == SelectSeq(pod_health, Keep)
    IN [i \in DOMAIN rows |-> OomAlert(rows[i])]

CrashLoopPods(cluster) ==
    LET Keep(r) == r.cluster_id = cluster /\ r.restart_count >= CrashLoopRestarts
        rows == SelectSeq(pod_health, Keep)
    IN [i \in DOMAIN rows |-> CrashLoopAlert(rows[i])]

ProbeEvents(cluster) ==
    LET Keep(r) == /\ r.cluster_id = cluster
                   /\ r.reason \in {"Unhealthy", "ProbeWarning"}
                   /\ r.age <= AlertWindow
        rows == SelectSeq(cluster_events, Keep)
    IN [i \in DOMAIN rows |-> ProbeAlert(rows[i])]

(* the existence query with the is_resolved filter inverted *)
ExistingSmartRowsResolved(alerts, alertData) ==
    {i \in DOMAIN alerts :
        /\ alerts[i].cluster_id = alertData.cluster_id
        /\ alerts[i].alert_type = alertData.alert_type
        /\ SqlEq(alerts[i].resource_name, alertData.resource_name)
        /\ alerts[i].is_resolved = TRUE}

(* createAlert: rows matched by the existence query *)
ExistingSmartRows(alerts, alertData) ==
    {i \in DOMAIN alerts :
        /\ alerts[i].cluster_id = alertData.cluster_id
        /\ alerts[i].alert_type = alertData.alert_type
        /\ SqlEq(alerts[i].resource_name, alertData.resource_name)
        /\ alerts[i].is_resolved = FALSE}

ExistingSmartAlert(alerts, alertData) == Single(ExistingSmartRows(alerts, alertData))

(* an update that also reopens the row *)
ReopenSmartAlert(alerts, id, alertData) ==
    [alerts EXCEPT ![id].description = alertData.description, ![id].age = 0,
                   ![id].is_resolved = FALSE]

(* createAlert: update of the found row; the trigger stamps updated_at *)
UpdateSmartAlert(alerts, id, alertData) ==
    [alerts EXCEPT ![id].description = alertData.description, ![id].age = 0]

(* createAlert: insert of alertData; is_resolved and updated_at default *)
NewSmartAlert(alertData) ==
    [cluster_id |-> alertData.cluster_id,
     alert_type |-> alertData.alert_type,
     severity |-> alertData.severity,
     resource_name |-> alertData.resource_name,
     description |-> alertData.description,
     is_resolved |-> FALSE,
     age |-> 0]

(* SmartAlerts.resolveAlert: the update of the row *)
ResolvedRow(row) == [row EXCEPT !.is_resolved = TRUE]

-----------------------------------------------------------------------------
(* monitor-clusters: one invocation per worker, one cluster at a time *)

IdleSm == [pc |-> "idle", cluster |-> Null, queue |-> <<>>, looked |-> FALSE,
           existing |-> NoRow, alertsCreated |-> 0]

HealthIdle == cluster_health_scores = <<>>

IdleIa == [pc |-> "idle", cluster |-> Null, now |-> 0, windows |-> <<>>,
           alerts |-> <<>>, created |-> 0, calls |-> 0, result |-> <<>>]

IdleCp == [pc |-> "idle", cluster |-> Null, target |-> 0, next |-> 1,
           collectedMetrics |-> 0, failed |-> {}, answered |-> {}]

IdlePass == [pc |-> "idle", fn |-> Null, queue |-> <<>>, stage |-> 1,
             acc |-> <<>>, failed |-> {}, results |-> <<>>]

AnalysisIdle ==
    /\ event_correlations = <<>>
    /\ pod_restart_trends = <<>>
    /\ intelligent_suggestions = <<>>
    /\ ia = IdleIa
    /\ ai = <<>>

CollectIdle ==
    /\ prometheus_targets = <<>>
    /\ cp = IdleCp

PassIdle ==
    /\ cluster_configs = <<>>
    /\ pass = IdlePass

RestIdle == AnalysisIdle /\ CollectIdle /\ PassIdle

IdleSi == [pc |-> "idle", enabledWebhooks |-> <<>>]

NotifyIdle ==
    /\ slack_webhooks = <<>>
    /\ notification_preferences = <<>>
    /\ si = IdleSi
    /\ notified = {}

SmartIdle ==
    /\ pod_health = <<>>
    /\ cluster_events = <<>>
    /\ smart_alerts = <<>>
    /\ sm = [w \in Workers |-> IdleSm]
    /\ api_events = NoEvents

(* more than AlertWindow minutes pass *)
SmartTick ==
    /\ pod_health' = Aged(pod_health, AlertWindow + 1, AlertWindow + 1)
    /\ cluster_events' = Aged(cluster_events, AlertWindow + 1, AlertWindow + 1)
    /\ smart_alerts' = Aged(smart_alerts, AlertWindow + 1, AlertWindow + 1)
    /\ <<pod_health', cluster_events', smart_alerts'>>
            # <<pod_health, cluster_events, smart_alerts>>
    /\ last' = NoStep
    /\ UNCHANGED <<thresholdVars, sideVars, sm>>

(* serve: the loop over clusters reaches `cluster` *)
StartMonitorPass(w, cluster) ==
    /\ sm[w].pc = "idle"
    /\ sm' = [sm EXCEPT ![w] = [IdleSm EXCEPT !.pc = "events", !.cluster = cluster]]
    /\ last' = NoStep
    /\ UNCHANGED <<thresholdVars, sideVars, pod_health, cluster_events, smart_alerts>>

(* monitorClusterEvents: the upsert of one item of the events list *)
MonitorEvent(w, uid, name, reason) ==
    /\ sm[w].pc = "events"
    /\ cluster_events' = UpsertEvent(cluster_events,
            EventRow(sm[w].cluster, uid, name, reason, 0, <<>>))
    /\ last' = NoStep
    /\ UNCHANGED <<thresholdVars, sideVars, pod_health, smart_alerts, sm>>

(* the cluster records one more occurrence of an event: the API server's item
   for it shows a count and a lastTimestamp one higher *)
EmitEvent(uid) ==
    /\ api_events[uid].count < MaxOccurrences
    /\ api_events' = [api_events EXCEPT
            ![uid] = [count |-> @.count + 1, lastTimestamp |-> <<@.count + 1>>]]
    /\ last' = NoStep
    /\ UNCHANGED <<thresholdVars, healthVars, notifyVars, restVars, pod_health,
                   cluster_events, smart_alerts, sm>>

(* what GET /api/v1/events returns for one event: no item before it
   happened, else one item; the items of e2 come from a recorder that fills
   neither count nor lastTimestamp *)
ApiItems(uid) ==
    LET e == api_events[uid]
    IN IF e.count = 0 THEN <<>>
       ELSE IF uid = "e2"
       THEN <<[uid |-> uid, count |-> 0, lastTimestamp |-> <<>>]>>
       ELSE <<[uid |-> uid, count |-> e.count,
               lastTimestamp |-> e.lastTimestamp]>>

(* serve reaches `cluster` and monitorClusterEvents fetches the events list *)
FetchEvents(w, cluster) ==
    /\ sm[w].pc = "idle"
    /\ sm' = [sm EXCEPT ![w] = [IdleSm EXCEPT
                !.pc = "events", !.cluster = cluster,
                !.queue = ApiItems("e1") \o ApiItems("e2")]]
    /\ last' = NoStep
    /\ UNCHANGED <<thresholdVars, sideVars, pod_health, cluster_events, smart_alerts>>

(* monitorClusterEvents: the upsert of the next item of the fetched list *)
MonitorFetchedEvent(w) ==
    /\ sm[w].pc = "events"
    /\ sm[w].queue # <<>>
    /\ LET event == Head(sm[w].queue)
       IN /\ cluster_events' = UpsertEvent(cluster_events,
                EventRow(sm[w].cluster, event.uid, "p1", ReasonOf(event.uid),
                         event.count, event.lastTimestamp))
          /\ last' = [op |-> "event", event |-> event]
    /\ sm' = [sm EXCEPT ![w].queue = Tail(@)]
    /\ UNCHANGED <<thresholdVars, sideVars, pod_health, smart_alerts>>

(* monitorPodHealth: the upsert of one container status of the pods list *)
MonitorPod(w, pod, container, restartCount, terminated, phase) ==
    /\ sm[w].pc \in {"events", "pods"}
    /\ pod_health' = UpsertPodHealth(pod_health,
            PodHealthRow(sm[w].cluster, pod, container, restartCount, terminated,
                         phase))
    /\ sm' = [sm EXCEPT ![w].pc = "pods"]
    /\ last' = [op |-> "pod", pod_name |-> pod, container_name |-> container,
                restartCount |-> restartCount, terminated |-> terminated,
                phase |-> phase]
    /\ UNCHANGED <<thresholdVars, sideVars, cluster_events, smart_alerts>>

(* analyzeAndCreateAlerts: the query for OOMKilled pods *)
QueryOomPods(w) ==
    /\ sm[w].pc \in {"events", "pods"}
    /\ sm' = [sm EXCEPT ![w].pc = "oom", ![w].queue = OomPods(sm[w].cluster)]
    /\ last' = NoStep
    /\ UNCHANGED <<thresholdVars, sideVars, pod_health, cluster_events, smart_alerts>>

(* analyzeAndCreateAlerts: the query for pods with restart_count >= 5 *)
QueryCrashLoopPods(w) ==
    /\ sm[w].pc = "oom"
    /\ sm[w].queue = <<>>
    /\ sm' = [sm EXCEPT ![w].pc = "crash", ![w].queue = CrashLoopPods(sm[w].cluster)]
    /\ last' = NoStep
    /\ UNCHANGED <<thresholdVars, sideVars, pod_health, cluster_events, smart_alerts>>

(* analyzeAndCreateAlerts: the query for failed probe events *)
QueryProbeEvents(w) ==
    /\ sm[w].pc = "crash"
    /\ sm[w].queue = <<>>
    /\ sm' = [sm EXCEPT ![w].pc = "probe", ![w].queue = ProbeEvents(sm[w].cluster)]
    /\ last' = NoStep
    /\ UNCHANGED <<thresholdVars, sideVars, pod_health, cluster_events, smart_alerts>>

(* analyzeAndCreateAlerts: return {alertsCreated} *)
FinishMonitorPass(w) ==
    /\ sm[w].pc = "probe"
    /\ sm[w].queue = <<>>
    /\ sm' = [sm EXCEPT ![w] = IdleSm]
    /\ last' = [op |-> "analyzed", alertsCreated |-> sm[w].alertsCreated]
    /\ UNCHANGED <<thresholdVars, sideVars, pod_health, cluster_events, smart_alerts>>

(* createAlert: the existence query for the next detection *)
LookupSmartAlert(w) ==
    /\ sm[w].pc \in {"oom", "crash", "probe"}
    /\ sm[w].queue # <<>>
    /\ ~sm[w].looked
    /\ sm' = [sm EXCEPT ![w].looked = TRUE,
                        ![w].existing =
                            ExistingSmartAlert(smart_alerts, Head(sm[w].queue))]
    /\ last' = NoStep
    /\ UNCHANGED <<thresholdVars, sideVars, pod_health, cluster_events, smart_alerts>>

(* createAlert: the update of the found row, or the insert; then
   alertsCreated++ in the caller *)
WriteSmartAlert(w) ==
    /\ sm[w].looked
    /\ LET alertData == Head(sm[w].queue)
       IN IF sm[w].existing # NoRow
          THEN /\ smart_alerts' =
                    UpdateSmartAlert(smart_alerts, sm[w].existing, alertData)
               /\ last' = [op |-> "smart_update", alertData |-> alertData,
                           id |-> sm[w].existing]
          ELSE /\ Len(smart_alerts) < MaxSmartAlerts
               /\ smart_alerts' = Append(smart_alerts, NewSmartAlert(alertData))
               /\ last' = [op |-> "smart_insert", alertData |-> alertData,
                           id |-> Len(smart_alerts) + 1]
    /\ sm' = [sm EXCEPT ![w].queue = Tail(@), ![w].looked = FALSE,
                        ![w].existing = NoRow,
                        ![w].alertsCreated = @ + 1]
    /\ UNCHANGED <<thresholdVars, sideVars, pod_health, cluster_events>>

(* SmartAlerts: the Resolve button of an active alert *)
ResolveAlert(alertId) ==
    /\ alertId \in DOMAIN smart_alerts
    /\ ~smart_alerts[alertId].is_resolved
    /\ smart_alerts' = [smart_alerts EXCEPT ![alertId] = ResolvedRow(@)]
    /\ last' = [op |-> "resolve", id |-> alertId]
    /\ UNCHANGED <<thresholdVars, sideVars, pod_health, cluster_events, sm>>

SmStep(w) ==
    \/ \E uid \in EventUids, pod \in Pods, reason \in EventReasons :
            MonitorEvent(w, uid, pod, reason)
    \/ \E pod \in Pods, container \in Containers, restartCount \in RestartCounts,
          terminated \in Terminations :
            MonitorPod(w, pod, container, restartCount, terminated, "Running")
    \/ QueryOomPods(w)
    \/ QueryCrashLoopPods(w)
    \/ QueryProbeEvents(w)
    \/ FinishMonitorPass(w)
    \/ LookupSmartAlert(w)
    \/ WriteSmartAlert(w)

(* sequential passes of monitor-clusters, and the dashboard user *)
SmartInit ==
    TmInit /\ SmartIdle /\ HealthIdle /\ NotifyIdle /\ RestIdle /\ last = NoStep

SmartNext ==
    \/ SmartTick
    \/ \E c \in Clusters : StartMonitorPass(1, c)
    \/ SmStep(1)
    \/ \E id \in 1..MaxSmartAlerts : ResolveAlert(id)

SpecSmart == SmartInit /\ [][SmartNext]_vars

(* sequential passes of monitor-clusters over a cluster with two pods *)
ObservedPods == {"p1", "p2"}

PodsNext ==
    \/ SmartTick
    \/ \E c \in Clusters : StartMonitorPass(1, c)
    \/ \E pod \in ObservedPods, container \in Containers,
          restartCount \in RestartCounts, terminated \in Terminations,
          phase \in PodPhases :
            MonitorPod(1, pod, container, restartCount, terminated, phase)
    \/ QueryOomPods(1)
    \/ QueryCrashLoopPods(1)
    \/ QueryProbeEvents(1)
    \/ FinishMonitorPass(1)
    \/ LookupSmartAlert(1)
    \/ WriteSmartAlert(1)

SpecPods == SmartInit /\ [][PodsNext]_vars

(* sequential passes of monitor-clusters over a pod whose containers stay at
   CrashLoopRestarts restarts, and the dashboard user *)
SteadyNext ==
    \/ SmartTick
    \/ \E c \in Clusters : StartMonitorPass(1, c)
    \/ \E pod \in Pods, container \in Containers :
            MonitorPod(1, pod, container, CrashLoopRestarts,
                       [reason |-> "Error", exitCode |-> 1], "Running")
    \/ QueryOomPods(1)
    \/ QueryCrashLoopPods(1)
    \/ QueryProbeEvents(1)
    \/ FinishMonitorPass(1)
    \/ LookupSmartAlert(1)
    \/ WriteSmartAlert(1)
    \/ \E id \in 1..MaxSmartAlerts : ResolveAlert(id)

SpecSteady == SmartInit /\ [][SteadyNext]_vars

(* sequential passes of monitor-clusters over a cluster whose events recur *)
EventsNext ==
    \/ SmartTick
    \/ \E uid \in ObservedUids : EmitEvent(uid)
    \/ \E c \in Clusters : FetchEvents(1, c)
    \/ MonitorFetchedEvent(1)
    \/ sm[1].queue = <<>> /\ QueryOomPods(1)
    \/ QueryCrashLoopPods(1)
    \/ QueryProbeEvents(1)
    \/ FinishMonitorPass(1)
    \/ LookupSmartAlert(1)
    \/ WriteSmartAlert(1)

SpecEvents == SmartInit /\ [][EventsNext]_vars

(* sequential passes of prometheus-monitor, and the dashboard user *)
ThresholdInit ==
    TmInit /\ SmartIdle /\ HealthIdle /\ NotifyIdle /\ RestIdle /\ last = NoStep

ThresholdNext ==
    \/ ThresholdTick
    \/ \E c \in Clusters : StartPrometheusPass(1, c)
    \/ TmStep(1)
    \/ \E id \in 1..MaxAlerts : AcknowledgeAlert(id)

SpecThreshold == ThresholdInit /\ [][ThresholdNext]_vars

(* sequential passes of prometheus-monitor on samples of two nodes *)
LabelledNodes == {"n1", "n2"}

NodeNext ==
    \/ ThresholdTick
    \/ \E c \in Clusters : StartPrometheusPass(1, c)
    \/ \E type \in MetricTypes, value \in MetricValues, node \in LabelledNodes :
            CollectMetric(1, type, value, node)
    \/ ReadRecentMetrics(1)
    \/ CheckSample(1)
    \/ InsertAlert(1)
    \/ \E id \in 1..MaxAlerts : AcknowledgeAlert(id)

SpecNode == ThresholdInit /\ [][NodeNext]_vars

(* checkMetricThresholds applied to one stored sample of any type and value *)
SeverityInit ==
    /\ \E c \in Clusters, type \in AllMetricTypes, value \in BoundaryValues,
          node \in Nodes :
            cluster_metrics = <<[cluster_id |-> c, metric_type |-> type,
                                 value |-> value, node_name |-> node, age |-> 0]>>
    /\ monitoring_alerts = <<>>
    /\ tm = [w \in Workers |-> IdleTm]
    /\ SmartIdle
    /\ HealthIdle
    /\ RestIdle
    /\ NotifyIdle
    /\ last = NoStep

SeverityNext ==
    \/ \E c \in Clusters : StartPrometheusPass(1, c)
    \/ ReadRecentMetrics(1)
    \/ CheckSample(1)
    \/ InsertAlert(1)

SpecSeverity == SeverityInit /\ [][SeverityNext]_vars

(* passes of both functions for the same cluster running at the same time,
   on node-labelled samples, and the dashboard user *)
NoPassRunning == \A w \in Workers : tm[w].pc = "idle" /\ sm[w].pc = "idle"

RaceNext ==
    \/ \E w \in Workers, c \in Clusters : StartPrometheusPass(w, c)
    \/ \E w \in Workers : CollectMetric(w, "cpu", 95, "n1")
    \/ \E w \in Workers : ReadRecentMetrics(w)
    \/ \E w \in Workers : CheckSample(w)
    \/ \E w \in Workers : InsertAlert(w)
    \/ \E id \in 1..MaxAlerts : AcknowledgeAlert(id)
    \/ \E w \in Workers, c \in Clusters : StartMonitorPass(w, c)
    \/ \E w \in Workers, pod \in Pods, container \in Containers :
            MonitorPod(w, pod, container, CrashLoopRestarts,
                       [reason |-> "Error", exitCode |-> 1], "Running")
    \/ \E w \in Workers : QueryOomPods(w)
    \/ \E w \in Workers : QueryCrashLoopPods(w)
    \/ \E w \in Workers : QueryProbeEvents(w)
    \/ \E w \in Workers : FinishMonitorPass(w)
    \/ \E w \in Workers : LookupSmartAlert(w)
    \/ \E w \in Workers : WriteSmartAlert(w)
    \/ \E id \in 1..MaxSmartAlerts : ResolveAlert(id)

SpecRace == SmartInit /\ [][RaceNext]_vars

-----------------------------------------------------------------------------
(* calculateClusterHealthScore and calculateComponentScore *)

(* Scores are JS numbers; here they are exact fractions num/den with den > 0
   in lowest terms, so that the rounding to two decimals is decided exactly *)
RECURSIVE Gcd(_, _)
Gcd(a, b) == IF b = 0 THEN a ELSE Gcd(b, a % b)

Abs(x) == IF x < 0 THEN -x ELSE x

Frac(n, d) ==
    LET g == Gcd(Abs(n), d)
    IN [num |-> n \div g, den |-> d \div g]

Whole(n) == [num |-> n, den |-> 1]

FracAdd(x, y) == Frac(x.num * y.den + y.num * x.den, x.den * y.den)

FracScale(k, x) ==
    LET g == Gcd(Abs(k), x.den)
    IN Frac((k \div g) * x.num, x.den \div g)

(* x / k for an integer k > 0 *)
FracOver(x, k) ==
    LET g == Gcd(Abs(x.num), k)
    IN Frac(x.num \div g, x.den * (k \div g))

(* Math.max(0, x) *)
Max0(x) == IF x.num < 0 THEN Whole(0) ELSE x

(* Math.round(x * 100) / 100, kept as the number of hundredths; Math.round
   rounds a half towards +Infinity *)
RoundHundredths(x) ==
    LET y == FracScale(100, x)
    IN (2 * y.num + y.den) \div (2 * y.den)

HealthWindow == 5
CpuAlertThreshold == 80
MemoryAlertThreshold == 85
DiskAlertThreshold == 90
NetworkScore == 95

(* the weights of the overall score, in hundredths *)
CpuWeight == 25
MemoryWeight == 25
DiskWeight == 20
NetworkWeight == 10
PodHealthWeight == 20

(* NUMERIC(5,2): the largest absolute value a score column takes, in
   hundredths *)
NumericMax == 99999

RECURSIVE SumValues(_)
SumValues(rows) ==
    IF rows = <<>> THEN 0 ELSE Head(rows).value + SumValues(Tail(rows))

(* the branch test with > in place of >= *)
ExceedsThreshold(avgValue, alertThreshold) ==
    avgValue.num > alertThreshold * avgValue.den

(* calculateComponentScore: avgValue >= alertThreshold *)
MeetsThreshold(avgValue, alertThreshold) ==
    avgValue.num >= alertThreshold * avgValue.den

(* 100 * (1 - avg / threshold * 0.5) for every average *)
ScoreByRatio(metrics, type, alertThreshold) ==
    LET IsType(m) == m.metric_type = type
        typeMetrics == SelectSeq(metrics, IsType)
        avgValue == Frac(SumValues(typeMetrics), Len(typeMetrics))
    IN IF Len(typeMetrics) = 0 THEN Whole(100)
       ELSE Max0(FracAdd(Whole(100),
                         FracScale(-50, FracOver(avgValue, alertThreshold))))

calculateComponentScore(metrics, type, alertThreshold) ==
    LET IsType(m) == m.metric_type = type
        typeMetrics == SelectSeq(metrics, IsType)
        avgValue == Frac(SumValues(typeMetrics), Len(typeMetrics))
    IN IF Len(typeMetrics) = 0 THEN Whole(100)
       ELSE IF MeetsThreshold(avgValue, alertThreshold)
            THEN Max0(FracAdd(Whole(100),
                              FracScale(-10, FracAdd(avgValue, Whole(-alertThreshold)))))
            ELSE Max0(FracAdd(Whole(100),
                              FracScale(-50, FracOver(avgValue, alertThreshold))))

(* .from('pod_health').select('*').eq('cluster_id', cluster.id) *)
PodHealthOf(cluster) ==
    LET OfCluster(p) == p.cluster_id = cluster
    IN SelectSeq(pod_health, OfCluster)

(* totalPods > 0 ? (healthyPods / totalPods) * 100 : 100 *)
PodHealthScore(podHealth) ==
    LET IsRunning(p) == p.status = "Running"
        totalPods == Len(podHealth)
        healthyPods == Len(SelectSeq(podHealth, IsRunning))
    IN IF totalPods > 0 THEN Frac(healthyPods * 100, totalPods) ELSE Whole(100)

(* [...new Set(metrics.map(m => m.node_name).filter(Boolean))].length || 1 *)
NodeCount(metrics) ==
    LET uniqueNodes == {metrics[i].node_name : i \in DOMAIN metrics} \ {Null, ""}
    IN IF Cardinality(uniqueNodes) = 0 THEN 1 ELSE Cardinality(uniqueNodes)

(* the weighted average of the five component scores *)
OverallScore(cpuScore, memoryScore, diskScore, networkScore, podHealthScore) ==
    FracOver(FracAdd(FracAdd(FracAdd(FracScale(CpuWeight, cpuScore),
                                     FracScale(MemoryWeight, memoryScore)),
                             FracAdd(FracScale(DiskWeight, diskScore),
                                     FracScale(NetworkWeight, networkScore))),
                     FracScale(PodHealthWeight, podHealthScore)),
             100)

(* the upserted row; scores in hundredths *)
HealthScoreRow(cluster, metrics, podHealth) ==
    LET cpuScore == calculateComponentScore(metrics, "cpu", CpuAlertThreshold)
        memoryScore == calculateComponentScore(metrics, "memory", MemoryAlertThreshold)
        diskScore == calculateComponentScore(metrics, "disk", DiskAlertThreshold)
        networkScore == Whole(NetworkScore)
        podHealthScore == PodHealthScore(podHealth)
        IsRunning(p) == p.status = "Running"
    IN [cluster_id |-> cluster,
        overall_score |-> RoundHundredths(OverallScore(cpuScore, memoryScore,
                                diskScore, networkScore, podHealthScore)),
        cpu_score |-> RoundHundredths(cpuScore),
        memory_score |-> RoundHundredths(memoryScore),
        disk_score |-> RoundHundredths(diskScore),
        network_score |-> RoundHundredths(networkScore),
        pod_health_score |-> RoundHundredths(podHealthScore),
        node_count |-> NodeCount(metrics),
        healthy_nodes |-> NodeCount(metrics),
        total_pods |-> Len(podHealth),
        healthy_pods |-> Len(SelectSeq(podHealth, IsRunning)),
        age |-> 0]

(* the score columns are NUMERIC(5,2): a value outside fails the statement *)
FitsNumeric(row) ==
    \A score \in {row.overall_score, row.cpu_score, row.memory_score,
                  row.disk_score, row.network_score, row.pod_health_score} :
        Abs(score) <= NumericMax

(* upsert with onConflict cluster_id,calculated_at; the error of a failed
   statement is not looked at *)
UpsertHealthScore(rows, row) ==
    LET same == {i \in DOMAIN rows : /\ rows[i].cluster_id = row.cluster_id
                                      /\ rows[i].age = row.age}
    IN IF ~FitsNumeric(row) THEN rows
       ELSE IF same = {} THEN Append(rows, row)
       ELSE [rows EXCEPT ![CHOOSE i \in same : TRUE] = row]

(* calculateClusterHealthScore, as serve runs it for `cluster` *)
CalculateClusterHealthScore(cluster) ==
    /\ LET metrics == RecentMetrics(cluster_metrics, cluster, HealthWindow,
                                    Len(cluster_metrics))
           podHealth == PodHealthOf(cluster)
       IN IF Len(metrics) = 0
          THEN /\ last' = [op |-> "no_recent_metrics"]
               /\ UNCHANGED cluster_health_scores
          ELSE /\ Len(cluster_health_scores) < MaxScores
               /\ cluster_health_scores' =
                       UpsertHealthScore(cluster_health_scores,
                                         HealthScoreRow(cluster, metrics, podHealth))
               /\ last' = [op |-> "health_score",
                           metrics |-> metrics,
                           podHealth |-> podHealth,
                           cpuScore |-> calculateComponentScore(metrics, "cpu",
                                               CpuAlertThreshold),
                           memoryScore |-> calculateComponentScore(metrics, "memory",
                                               MemoryAlertThreshold),
                           diskScore |-> calculateComponentScore(metrics, "disk",
                                               DiskAlertThreshold),
                           stored |-> FitsNumeric(HealthScoreRow(cluster, metrics,
                                                                 podHealth))]
    /\ UNCHANGED <<thresholdVars, smartVars, notifyVars, restVars>>

(* time passes in steps of half a window, so that a stored sample is read
   by the pass after the next step and no longer by the one after that *)
HealthStep == (HealthWindow + 1) \div 2

HealthTick ==
    /\ cluster_metrics' = Aged(cluster_metrics, HealthStep, HealthWindow + 1)
    /\ cluster_health_scores' =
            Aged(cluster_health_scores, HealthStep, HealthWindow + 1)
    /\ <<cluster_metrics', cluster_health_scores'>>
            # <<cluster_metrics, cluster_health_scores>>
    /\ last' = NoStep
    /\ UNCHANGED <<monitoring_alerts, tm, smartVars, notifyVars, restVars>>

(* sample values a metrics source returns: negative readings, values on
   and around the alert thresholds *)
HealthValues == {-1600, -8, 80, 90, 95}
HealthTypes == {"cpu", "memory", "disk", "network"}

HealthSamples ==
    [cluster_id : Clusters, metric_type : HealthTypes, value : HealthValues,
     node_name : {"n1"}, age : {0, HealthWindow + 1}]

(* the pod_health rows of `n` single-container pods with the given phases *)
HealthPods(cluster, phases) ==
    [i \in DOMAIN phases |->
        PodHealthRow(cluster, ToString(i), "a", 0,
                     [reason |-> Null, exitCode |-> Null], phases[i])]

(* health scores computed over stored samples and pod snapshots *)
HealthInit ==
    /\ cluster_metrics \in UNION {[1..n -> HealthSamples] : n \in 0..MaxHealthSamples}
    /\ \E c \in Clusters :
         \E phases \in UNION {[1..n -> PodPhases] : n \in 0..MaxHealthPods} :
            pod_health = HealthPods(c, phases)
    /\ monitoring_alerts = <<>>
    /\ tm = [w \in Workers |-> IdleTm]
    /\ cluster_events = <<>>
    /\ smart_alerts = <<>>
    /\ sm = [w \in Workers |-> IdleSm]
    /\ api_events = NoEvents
    /\ HealthIdle
    /\ RestIdle
    /\ NotifyIdle
    /\ last = NoStep

HealthNext ==
    \/ HealthTick
    \/ \E c \in Clusters : CalculateClusterHealthScore(c)

SpecHealth == HealthInit /\ [][HealthNext]_vars

-----------------------------------------------------------------------------
(* slack-integration: the severity filter of serve *)

(* const severityLevels *)
severityLevels == <<"low", "medium", "high", "critical">>

(* severities a caller puts in the payload; "warning" is one the scale
   does not hold *)
EventSeverities == {"low", "medium", "high", "critical", "warning"}
WebhookClusters == {Null, "c1", "c2"}
NotificationTypes == {"slack"}

(* Array.prototype.indexOf: the first position, from 0, or -1 *)
IndexOf(levels, x) ==
    IF \E i \in DOMAIN levels : levels[i] = x
    THEN (CHOOSE i \in DOMAIN levels :
            levels[i] = x /\ \A j \in 1..(i - 1) : levels[j] # x) - 1
    ELSE -1

(* .from('slack_webhooks').eq('user_id', user.id).eq('enabled', true) *)
QueryWebhooks(rows) ==
    LET Keep(r) == r.enabled = TRUE
    IN SelectSeq(rows, Keep)

(* .from('notification_preferences').eq('user_id', user.id)
   .eq('notification_type', 'slack').eq('enabled', true); `data` is null
   when the fetch fails, and preferences?.find then yields undefined *)
QueryPreferences(rows, prefError) ==
    LET Keep(r) == r.notification_type = "slack" /\ r.enabled = TRUE
    IN IF prefError THEN <<>> ELSE SelectSeq(rows, Keep)

(* preferences.find(p => !p.cluster_id || p.cluster_id === webhook.cluster_id):
   the position of the first such preference, NoRow when there is none *)
FindPreference(preferences, webhook) ==
    LET matching == {i \in DOMAIN preferences :
                        \/ preferences[i].cluster_id = Null
                        \/ preferences[i].cluster_id = webhook.cluster_id}
    IN IF matching = {} THEN NoRow
       ELSE CHOOSE i \in matching : \A j \in matching : i <= j

(* the comparison with > in place of >= *)
LevelAbove(messageLevel, thresholdLevel) == messageLevel > thresholdLevel

(* return messageLevel >= thresholdLevel *)
LevelAdmitted(messageLevel, thresholdLevel) == messageLevel >= thresholdLevel

(* the predicate of webhooks.filter *)
PassesFilter(webhook, preferences, severity) ==
    LET userPref == FindPreference(preferences, webhook)
    IN IF userPref = NoRow THEN TRUE
       ELSE LevelAdmitted(IndexOf(severityLevels, severity),
                          IndexOf(severityLevels,
                                  preferences[userPref].severity_threshold))

(* outcomes of the POST to one webhook url: an OK response, a non-OK
   response, a fetch that throws *)
FetchOutcomes == {"ok", "not_ok", "throws"}

(* payload.alert_id of a request that names no alert *)
NoAlert == <<>>

(* serve: one notification request, up to the filtered list.  alertId is
   payload.alert_id, <<table, row id>> or NoAlert; clusterName is
   payload.cluster_name, the one field of the payload that tells the cluster
   (a cluster is named by its id here) *)
Dispatch(severity, alertId, prefError, clusterName) ==
    /\ si.pc = "idle"
    /\ LET webhooks == QueryWebhooks(slack_webhooks)
           preferences == QueryPreferences(notification_preferences, prefError)
           Passes(w) == PassesFilter(w, preferences, severity)
       IN IF Len(webhooks) = 0
          THEN /\ last' = [op |-> "no_webhooks"]
               /\ si' = si
          ELSE /\ last' = [op |-> "dispatch",
                           severity |-> severity,
                           cluster_name |-> clusterName,
                           prefError |-> prefError,
                           enabledWebhooks |-> SelectSeq(webhooks, Passes)]
               /\ si' = [pc |-> "send",
                         enabledWebhooks |-> SelectSeq(webhooks, Passes)]
    /\ notified' = notified \cup {alertId}
    /\ UNCHANGED <<thresholdVars, smartVars, healthVars, restVars, slack_webhooks,
                   notification_preferences>>

(* every webhook of the list is posted to twice *)
PostTwice(enabledWebhooks) ==
    [i \in 1..(2 * Len(enabledWebhooks)) |->
        enabledWebhooks[((i - 1) % Len(enabledWebhooks)) + 1].id]

(* enabledWebhooks.map(async (webhook) => fetch(webhook.webhook_url, ...)):
   the webhook ids posted to, in order *)
PostEach(enabledWebhooks) ==
    [i \in DOMAIN enabledWebhooks |-> enabledWebhooks[i].id]

(* Promise.allSettled: the callback of a webhook throws unless response.ok *)
Settle(enabledWebhooks, outcome) ==
    [i \in DOMAIN enabledWebhooks |->
        IF outcome[enabledWebhooks[i].id] = "ok" THEN "fulfilled" ELSE "rejected"]

(* results.filter(r => r.status === status).length *)
CountStatus(results, status) ==
    Cardinality({i \in DOMAIN results : results[i] = status})

(* serve: the fan-out to the filtered webhooks and the response *)
Send(outcome) ==
    /\ si.pc = "send"
    /\ LET results == Settle(si.enabledWebhooks, outcome)
       IN last' = [op |-> "sent",
                   enabledWebhooks |-> si.enabledWebhooks,
                   outcome |-> outcome,
                   posts |-> PostEach(si.enabledWebhooks),
                   results |-> results,
                   response |-> [success |-> TRUE,
                                 notifications_sent |-> CountStatus(results, "fulfilled"),
                                 failures |-> CountStatus(results, "rejected")]]
    /\ si' = IdleSi
    /\ UNCHANGED <<thresholdVars, smartVars, healthVars, restVars, slack_webhooks,
                   notification_preferences, notified>>

WebhookRows ==
    [cluster_id : WebhookClusters, enabled : BOOLEAN]

PreferenceRows ==
    [cluster_id : WebhookClusters, notification_type : NotificationTypes,
     severity_threshold : {severityLevels[i] : i \in DOMAIN severityLevels},
     enabled : BOOLEAN]

(* the row id of a webhook is its position in the table *)
WithIds(rows) ==
    [i \in DOMAIN rows |->
        [id |-> i, cluster_id |-> rows[i].cluster_id, enabled |-> rows[i].enabled]]

(* notification requests over any stored webhooks and preferences, in any
   order the store returns them *)
NotifyInit ==
    /\ \E rows \in UNION {[1..n -> WebhookRows] : n \in 0..MaxWebhooks} :
            slack_webhooks = WithIds(rows)
    /\ notification_preferences
            \in UNION {[1..n -> PreferenceRows] : n \in 0..MaxPreferences}
    /\ si = IdleSi
    /\ notified = {}
    /\ TmInit
    /\ SmartIdle
    /\ HealthIdle
    /\ RestIdle
    /\ last = NoStep

NotifyNext ==
    \/ \E severity \in EventSeverities, prefError \in BOOLEAN :
            Dispatch(severity, NoAlert, prefError, "c1")
    \/ \E outcome \in [{si.enabledWebhooks[i].id : i \in DOMAIN si.enabledWebhooks}
                            -> FetchOutcomes] :
            Send(outcome)

SpecNotify == NotifyInit /\ [][NotifyNext]_vars

(* IncidentTimeline.testSlackNotification: the one place of the repository
   that invokes slack-integration *)
testSlackNotification ==
    \E prefError \in BOOLEAN :
        Dispatch("medium", NoAlert, prefError, "test-cluster")

(* both monitors writing alerts, and every invocation of slack-integration
   the code makes; the user has one enabled webhook *)
AlertingInit ==
    /\ TmInit
    /\ SmartIdle
    /\ HealthIdle
    /\ RestIdle
    /\ slack_webhooks = WithIds(<<[cluster_id |-> Null, enabled |-> TRUE]>>)
    /\ notification_preferences = <<>>
    /\ si = IdleSi
    /\ notified = {}
    /\ last = NoStep

AlertingNext ==
    \/ \E c \in Clusters : StartPrometheusPass(1, c)
    \/ \E value \in MetricValues : CollectMetric(1, "cpu", value, "n1")
    \/ ReadRecentMetrics(1)
    \/ CheckSample(1)
    \/ InsertAlert(1)
    \/ \E c \in Clusters : StartMonitorPass(1, c)
    \/ \E pod \in Pods, container \in Containers, terminated \in Terminations :
            MonitorPod(1, pod, container, CrashLoopRestarts, terminated, "Running")
    \/ QueryOomPods(1)
    \/ QueryCrashLoopPods(1)
    \/ QueryProbeEvents(1)
    \/ FinishMonitorPass(1)
    \/ LookupSmartAlert(1)
    \/ WriteSmartAlert(1)
    \/ testSlackNotification
    \/ \E outcome \in [{si.enabledWebhooks[i].id : i \in DOMAIN si.enabledWebhooks}
                            -> FetchOutcomes] :
            Send(outcome)

SpecAlerting == AlertingInit /\ [][AlertingNext]_vars

-----------------------------------------------------------------------------
(* intelligent-analysis: event correlation *)

MaxEvents == 3

(* minutes of history performEventCorrelation reads *)
CorrelationWindow == 120
(* .limit() of the events query *)
EventLimit == 100
(* width of a time window, in minutes *)
WindowMinutes == 5
(* confidence is kept in hundredths: the cutoff 0.7 is 70 *)
ConfidenceCutoff == 70

(* created_at of a row in minutes, when the clock reads `now` *)
CreatedAt(row, now) == now - row.age

(* .order('created_at', { ascending: true }) *)
AscendingBefore(a, b) == a.age >= b.age

(* .order('created_at', { ascending: false }): may `a` come before `b` *)
DescendingBefore(a, b) == a.age <= b.age

(* the answers the store may give to the events query: the rows of the
   cluster inside the window, newest first, rows of equal created_at in
   any order, cut at the limit *)
RecentEvents(rows, cluster) ==
    LET ids == {i \in DOMAIN rows : /\ rows[i].cluster_id = cluster
                                    /\ rows[i].age <= CorrelationWindow}
        n == Cardinality(ids)
        m == IF n > EventLimit THEN EventLimit ELSE n
        orders == {f \in [1..n -> ids] :
                    /\ \A i, j \in 1..n : i # j => f[i] # f[j]
                    /\ \A i, j \in 1..n :
                         i < j => DescendingBefore(rows[f[i]], rows[f[j]])}
    IN {[k \in 1..m |-> [id |-> f[k]] @@ rows[f[k]]] : f \in orders}

BucketStart(eventTime, windowMinutes) ==
    (eventTime \div windowMinutes) * windowMinutes

RECURSIVE GroupInto(_, _, _, _)
GroupInto(windows, events, windowMinutes, now) ==
    IF events = <<>> THEN windows
    ELSE LET event == Head(events)
             eventTime == CreatedAt(event, now)
             found == {k \in DOMAIN windows :
                            /\ eventTime >= windows[k].startTime
                            /\ eventTime <= windows[k].endTime}
             first == CHOOSE k \in found : \A j \in found : k <= j
             startTime == BucketStart(eventTime, windowMinutes)
         IN GroupInto(
              IF found = {}
              THEN Append(windows, [startTime |-> startTime,
                                    endTime |-> startTime + windowMinutes,
                                    events |-> <<event>>])
              ELSE [windows EXCEPT ![first].events = Append(@, event)],
              Tail(events), windowMinutes, now)

groupEventsByTimeWindows(events, windowMinutes, now) ==
    GroupInto(<<>>, events, windowMinutes, now)

(* what the chat completion call yields: no response, content that is not
   JSON, or the parsed JSON object *)
CorrelationReplies ==
    {[kind |-> "error"], [kind |-> "unparseable"], [kind |-> "json", json |-> <<>>],
     [kind |-> "json", json |-> [isCorrelated |-> TRUE, confidence |-> 71,
                                 rootCause |-> "rc"]]}
    \cup {[kind |-> "json", json |-> [isCorrelated |-> b, confidence |-> c,
                                      rootCause |-> "rc", type |-> "cascade"]] :
            b \in BOOLEAN, c \in {ConfidenceCutoff, ConfidenceCutoff + 1}}

(* a property of a parsed JSON object; undefined when it is missing *)
Property(json, name) == IF name \in DOMAIN json THEN json[name] ELSE Null

analyzeEventCorrelationWithAI(reply) ==
    IF reply.kind # "json"
    THEN [confidence |-> 0, rootCause |-> "Analysis failed", type |-> "unknown"]
    ELSE LET result == reply.json
             isCorrelated == "isCorrelated" \in DOMAIN result /\ result.isCorrelated
         IN [confidence |-> IF isCorrelated THEN result.confidence ELSE 0,
             rootCause |-> Property(result, "rootCause"),
             type |-> Property(result, "type")]

(* the cutoff test with >= in place of > *)
AtCutoff(confidence) == confidence >= ConfidenceCutoff

(* correlationAnalysis.confidence > 0.7 *)
AboveCutoff(confidence) == confidence > ConfidenceCutoff

(* the upserted record; correlation_id is built from the clock and a random
   suffix, so it is a value no stored row has *)
CorrelationRow(cluster, events, analysis, rows) ==
    [cluster_id |-> cluster,
     correlation_id |-> Len(rows) + 1,
     primary_event_id |-> events[1].id,
     related_event_ids |-> [k \in 1..(Len(events) - 1) |-> events[k + 1].id],
     root_cause_analysis |-> analysis.rootCause,
     confidence_score |-> analysis.confidence,
     correlation_type |-> analysis.type]

(* upsert with onConflict cluster_id,correlation_id; correlation_type is
   NOT NULL, a record without it is rejected and the error is not read *)
UpsertCorrelation(rows, row) ==
    IF row.correlation_type = Null THEN rows
    ELSE LET same == {i \in DOMAIN rows :
                        /\ rows[i].cluster_id = row.cluster_id
                        /\ rows[i].correlation_id = row.correlation_id}
         IN IF same = {} THEN Append(rows, row)
            ELSE [rows EXCEPT ![CHOOSE i \in same : TRUE] = row]

(* serve: the loop over clusters reaches `cluster`; performEventCorrelation
   reads the events and groups them *)
StartAnalysis(cluster, now) ==
    /\ ia.pc = "idle"
    /\ \E events \in RecentEvents(cluster_events, cluster) :
         LET timeWindows == groupEventsByTimeWindows(events, WindowMinutes, now)
         IN /\ ia' = [IdleIa EXCEPT
                        !.pc = IF events = <<>> THEN "trends" ELSE "correlate",
                        !.cluster = cluster, !.now = now,
                        !.windows = timeWindows, !.calls = ia.calls,
                        !.result = IF events = <<>>
                                   THEN [correlation |-> [correlationsFound |-> 0]]
                                   ELSE <<>>]
            /\ last' = [op |-> "group", events |-> events, now |-> now,
                        windows |-> timeWindows]
    /\ UNCHANGED <<thresholdVars, smartVars, healthVars, notifyVars,
                   event_correlations, pod_restart_trends,
                   intelligent_suggestions, ai, collectVars, passVars>>

(* performEventCorrelation: one round of the loop over the time windows,
   `reply` being what the model call yields for the window *)
CorrelateWindow(reply) ==
    /\ ia.pc = "correlate"
    /\ ia.windows # <<>>
    /\ LET window == Head(ia.windows)
           correlationAnalysis == analyzeEventCorrelationWithAI(reply)
           analysed == Len(window.events) >= 2
           upsert == analysed /\ AboveCutoff(correlationAnalysis.confidence)
       IN /\ event_correlations' =
                IF upsert
                THEN UpsertCorrelation(event_correlations,
                        CorrelationRow(ia.cluster, window.events,
                                       correlationAnalysis, event_correlations))
                ELSE event_correlations
          /\ ia' = [ia EXCEPT !.windows = Tail(@),
                              !.created = IF upsert THEN @ + 1 ELSE @]
          /\ last' = [op |-> "correlate", events |-> window.events,
                      reply |-> reply, analysis |-> correlationAnalysis,
                      before |-> event_correlations]
    /\ UNCHANGED <<thresholdVars, smartVars, healthVars, notifyVars,
                   pod_restart_trends, intelligent_suggestions, ai,
                   collectVars, passVars>>

(* performEventCorrelation: the loop is over, the count is returned *)
FinishCorrelation ==
    /\ ia.pc = "correlate"
    /\ ia.windows = <<>>
    /\ ia' = [ia EXCEPT !.pc = "trends",
                        !.result = [correlation |-> [correlationsCreated |-> ia.created]]]
    /\ last' = NoStep
    /\ UNCHANGED <<thresholdVars, smartVars, healthVars, notifyVars,
                   event_correlations, pod_restart_trends,
                   intelligent_suggestions, ai, collectVars, passVars>>

(* the clock readings and event ages the correlation is explored with *)
AnalysisNows == {240, 241}
EventAges == {0, 1, 5, 6, CorrelationWindow + 1}
EventUidOf == <<"e1", "e2", "e3", "e4">>

StoredEvents(cluster, ages) ==
    [i \in DOMAIN ages |->
        [cluster_id |-> cluster, event_uid |-> EventUidOf[i], name |-> "p1",
         reason |-> "Unhealthy", message |-> <<"Unhealthy", "p1">>,
         age |-> ages[i]]]

CorrelateInit ==
    /\ \E c \in Clusters :
         \E ages \in UNION {[1..n -> EventAges] : n \in 0..MaxEvents} :
            cluster_events = StoredEvents(c, ages)
    /\ pod_health = <<>>
    /\ smart_alerts = <<>>
    /\ sm = [w \in Workers |-> IdleSm]
    /\ api_events = NoEvents
    /\ TmInit
    /\ HealthIdle
    /\ NotifyIdle
    /\ RestIdle
    /\ last = NoStep

CorrelateNext ==
    \/ \E c \in Clusters, now \in AnalysisNows : StartAnalysis(c, now)
    \/ \E reply \in CorrelationReplies : CorrelateWindow(reply)
    \/ FinishCorrelation

SpecCorrelate == CorrelateInit /\ [][CorrelateNext]_vars

-----------------------------------------------------------------------------
(* intelligent-analysis: restart trends and suggestions *)

MaxCalls == 2

(* minutes of pod_health history analyzePodRestartTrends reads *)
TrendWindow == 1440
(* significance is kept in hundredths: the cutoff 0.5 is 50 *)
SignificanceCutoff == 50
(* minutes of a time_window of pod_restart_trends *)
HourMinutes == 60

(* the strictly increasing enumeration of a set of indices *)
Ascending(S) ==
    CHOOSE f \in [1..Cardinality(S) -> S] :
        \A i, j \in 1..Cardinality(S) : i < j => f[i] < f[j]

(* pod => `${pod.pod_name}_${pod.namespace}`; the rows of a cluster share
   the cluster's namespace *)
PodKey(pod) == pod.pod_name

(* the Map built by groupBy, as its entries in insertion order; keys[i]
   is keyFunc(array[i]) *)
groupBy(array, keys) ==
    LET firsts == {i \in DOMAIN array :
                    \A j \in DOMAIN array : j < i => keys[j] # keys[i]}
        order == Ascending(firsts)
    IN [k \in DOMAIN order |->
            [key |-> keys[order[k]],
             items |-> [n \in 1..Cardinality({i \in DOMAIN array :
                                                keys[i] = keys[order[k]]}) |->
                        array[Ascending({i \in DOMAIN array :
                                            keys[i] = keys[order[k]]})[n]]]]]

(* Object.entries(value) of a Map: a Map has no own enumerable
   string-keyed properties, whatever entries it holds *)
ObjectEntries(map) == <<>>

(* may `a` come before `b` in .order('updated_at', { ascending: true }) *)
OlderFirst(a, b) == a.age >= b.age

(* the answers the store may give to the pod_health query *)
RecentPodHealth(rows, cluster) ==
    LET ids == {i \in DOMAIN rows : /\ rows[i].cluster_id = cluster
                                    /\ rows[i].age <= TrendWindow}
        n == Cardinality(ids)
        orders == {f \in [1..n -> ids] :
                    /\ \A i, j \in 1..n : i # j => f[i] # f[j]
                    /\ \A i, j \in 1..n :
                         i < j => OlderFirst(rows[f[i]], rows[f[j]])}
    IN {[k \in 1..n |-> rows[f[k]]] : f \in orders}

TrendReplies ==
    {[kind |-> "error"], [kind |-> "unparseable"]}
    \cup {[kind |-> "json", json |-> [significance |-> s, direction |-> "increasing",
                                      score |-> 80]] :
            s \in {SignificanceCutoff, 90}}

analyzePodTrendWithAI(reply) ==
    IF reply.kind # "json"
    THEN [significance |-> 0, direction |-> "stable", score |-> 0]
    ELSE reply.json

(* upsert with onConflict cluster_id,pod_name,namespace,time_window *)
UpsertTrend(rows, row) ==
    LET same == {i \in DOMAIN rows : /\ rows[i].cluster_id = row.cluster_id
                                     /\ rows[i].pod_name = row.pod_name
                                     /\ rows[i].time_window = row.time_window}
    IN IF same = {} THEN Append(rows, row)
       ELSE [rows EXCEPT ![CHOOSE i \in same : TRUE] = row]

(* analyzePodRestartTrends: the loop over the entries, `reply` being what
   the model call yields *)
RECURSIVE TrendLoop(_, _, _, _, _)
TrendLoop(rows, entries, cluster, now, reply) ==
    IF entries = <<>> THEN rows
    ELSE LET podData == Head(entries).items
             trendAnalysis == analyzePodTrendWithAI(reply)
         IN TrendLoop(
              IF Len(podData) >= 2 /\ trendAnalysis.significance > SignificanceCutoff
              THEN UpsertTrend(rows,
                    [cluster_id |-> cluster,
                     pod_name |-> podData[1].pod_name,
                     time_window |-> (now \div HourMinutes) * HourMinutes,
                     restart_count |-> podData[Len(podData)].restart_count,
                     trend_direction |-> trendAnalysis.direction,
                     trend_score |-> trendAnalysis.score])
              ELSE rows,
              Tail(entries), cluster, now, reply)

(* analyzePodRestartTrends *)
AnalyzeTrends ==
    /\ ia.pc = "trends"
    /\ \E podHealthData \in RecentPodHealth(pod_health, ia.cluster) :
         LET podGroups == groupBy(podHealthData,
                                    [i \in DOMAIN podHealthData |->
                                        PodKey(podHealthData[i])])
             trends == TrendLoop(pod_restart_trends, ObjectEntries(podGroups),
                                 ia.cluster, ia.now, ai.trend)
         IN /\ pod_restart_trends' = trends
            /\ ia' = [ia EXCEPT !.pc = "suggest",
                        !.result = [correlation |-> ia.result.correlation,
                                    trends |-> IF podHealthData = <<>>
                                               THEN [trendsAnalyzed |-> 0]
                                               ELSE [trendsCreated |->
                                                       Len(trends) - Len(pod_restart_trends)]]]
            /\ last' = [op |-> "trends", podGroups |-> podGroups,
                        now |-> ia.now, cluster |-> ia.cluster]
    /\ UNCHANGED <<thresholdVars, smartVars, healthVars, notifyVars,
                   event_correlations, intelligent_suggestions, ai,
                   collectVars, passVars>>

(* the parsed content of a suggestion answer: whether for...of can iterate
   it, and the elements it yields *)
FullSuggestion == [type |-> "immediate", priority |-> 1, title |-> "t",
                   description |-> "d", actionSteps |-> <<"s">>]
PartialSuggestion == [type |-> "immediate", priority |-> 1]

SuggestionReplies ==
    {[kind |-> "error"], [kind |-> "unparseable"],
     [kind |-> "json", json |-> [iterable |-> FALSE, items |-> <<>>]]}
    \cup {[kind |-> "json", json |-> [iterable |-> TRUE, items |-> items]] :
            items \in {<<>>, <<FullSuggestion>>, <<PartialSuggestion>>,
                       <<FullSuggestion, PartialSuggestion>>}}

generateSuggestionsWithAI(reply) ==
    IF reply.kind # "json" THEN [iterable |-> TRUE, items |-> <<>>]
    ELSE reply.json

(* insert of one suggestion; suggestion_type, priority, title, description
   and action_steps are NOT NULL, a record without them is rejected and the
   error is not read *)
InsertSuggestion(rows, alertId, suggestion) ==
    IF {"type", "priority", "title", "description", "actionSteps"}
            \subseteq DOMAIN suggestion
    THEN Append(rows, [alert_id |-> alertId,
                       suggestion_type |-> suggestion.type,
                       priority |-> suggestion.priority,
                       title |-> suggestion.title])
    ELSE rows

RECURSIVE InsertSuggestions(_, _, _)
InsertSuggestions(rows, alertId, suggestions) ==
    IF suggestions = <<>> THEN rows
    ELSE InsertSuggestions(InsertSuggestion(rows, alertId, Head(suggestions)),
                           alertId, Tail(suggestions))

(* the skip test that never finds a suggestion *)
NoSuggestions(rows, alertId) == FALSE

(* existingSuggestions && existingSuggestions.length > 0 *)
HasSuggestions(rows, alertId) ==
    \E i \in DOMAIN rows : rows[i].alert_id = alertId

(* the unresolved alerts of the cluster, newest first: ids are handed out
   in creation order *)
UnresolvedAlerts(alerts, cluster) ==
    LET ids == {i \in DOMAIN alerts : /\ alerts[i].cluster_id = cluster
                                      /\ alerts[i].is_resolved = FALSE}
        up == Ascending(ids)
    IN [k \in DOMAIN up |-> up[Len(up) + 1 - k]]

(* generateIntelligentSuggestions: the alerts query *)
StartSuggestions ==
    /\ ia.pc = "suggest"
    /\ LET alerts == UnresolvedAlerts(smart_alerts, ia.cluster)
       IN ia' = IF alerts = <<>>
                THEN [ia EXCEPT !.pc = "done",
                        !.result = [correlation |-> ia.result.correlation,
                                    trends |-> ia.result.trends,
                                    suggestions |-> [suggestionsGenerated |-> 0]]]
                ELSE [ia EXCEPT !.pc = "alerts", !.alerts = alerts, !.created = 0]
    /\ last' = NoStep
    /\ UNCHANGED <<thresholdVars, smartVars, healthVars, notifyVars,
                   event_correlations, pod_restart_trends,
                   intelligent_suggestions, ai, collectVars, passVars>>

(* generateIntelligentSuggestions: one round of the loop over the alerts.
   Iterating a value that is not iterable throws; the function's catch
   returns { error } and the loop is left *)
SuggestForAlert ==
    /\ ia.pc = "alerts"
    /\ ia.alerts # <<>>
    /\ LET alert == Head(ia.alerts)
           skipped == HasSuggestions(intelligent_suggestions, alert)
           suggestions == generateSuggestionsWithAI(ai.suggest[alert])
           thrown == ~skipped /\ ~suggestions.iterable
           stored == IF skipped \/ thrown THEN intelligent_suggestions
                     ELSE InsertSuggestions(intelligent_suggestions, alert,
                                            suggestions.items)
       IN /\ intelligent_suggestions' = stored
          /\ ia' = IF thrown
                   THEN [ia EXCEPT !.pc = "done", !.alerts = Tail(@),
                            !.result = [correlation |-> ia.result.correlation,
                                        trends |-> ia.result.trends,
                                        suggestions |-> [error |-> "not iterable"]]]
                   ELSE [ia EXCEPT !.alerts = Tail(@),
                            !.created = IF skipped THEN @
                                        ELSE @ + Len(suggestions.items)]
          /\ last' = [op |-> "suggest", alert |-> alert, skipped |-> skipped,
                      reply |-> ai.suggest[alert],
                      before |-> intelligent_suggestions]
    /\ UNCHANGED <<thresholdVars, smartVars, healthVars, notifyVars,
                   event_correlations, pod_restart_trends, ai,
                   collectVars, passVars>>

(* generateIntelligentSuggestions: the loop is over, the count is returned *)
FinishSuggestions ==
    /\ ia.pc = "alerts"
    /\ ia.alerts = <<>>
    /\ ia' = [ia EXCEPT !.pc = "done",
                !.result = [correlation |-> ia.result.correlation,
                            trends |-> ia.result.trends,
                            suggestions |-> [suggestionsCreated |-> ia.created]]]
    /\ last' = NoStep
    /\ UNCHANGED <<thresholdVars, smartVars, healthVars, notifyVars,
                   event_correlations, pod_restart_trends,
                   intelligent_suggestions, ai, collectVars, passVars>>

(* serve: the cluster's entry is pushed and the invocation returns *)
FinishAnalysis ==
    /\ ia.pc = "done"
    /\ ia.calls < MaxCalls
    /\ ia' = [IdleIa EXCEPT !.calls = ia.calls + 1]
    /\ last' = [op |-> "analysed", result |-> ia.result]
    /\ UNCHANGED <<thresholdVars, smartVars, healthVars, notifyVars,
                   event_correlations, pod_restart_trends,
                   intelligent_suggestions, ai, collectVars, passVars>>

(* the stored rows the analysis is explored with: a pod of one or two
   containers, and alerts resolved or not *)
TrendPods(cluster) ==
    {<<>>,
     <<PodHealthRow(cluster, "p1", "a", 5, [reason |-> "Error", exitCode |-> 1],
                    "Running")>>,
     <<PodHealthRow(cluster, "p1", "a", 5, [reason |-> "Error", exitCode |-> 1],
                    "Running"),
       PodHealthRow(cluster, "p1", "b", 0, [reason |-> Null, exitCode |-> Null],
                    "Running")>>}

StoredAlerts(cluster, resolved) ==
    [i \in DOMAIN resolved |->
        [NewSmartAlert(OomAlert([cluster_id |-> cluster, pod_name |-> "p1",
                                 container_name |-> "a"]))
            EXCEPT !.is_resolved = resolved[i]]]

SuggestInit ==
    /\ \E c \in Clusters :
         /\ pod_health \in TrendPods(c)
         /\ \E resolved \in UNION {[1..n -> BOOLEAN] : n \in 0..MaxSmartAlerts} :
                smart_alerts = StoredAlerts(c, resolved)
    /\ cluster_events = <<>>
    /\ sm = [w \in Workers |-> IdleSm]
    /\ api_events = NoEvents
    /\ TmInit
    /\ HealthIdle
    /\ NotifyIdle
    /\ event_correlations = <<>>
    /\ pod_restart_trends = <<>>
    /\ intelligent_suggestions = <<>>
    /\ ia = IdleIa
    /\ \E trend \in TrendReplies :
         \E suggest \in [DOMAIN smart_alerts -> SuggestionReplies] :
            ai = [trend |-> trend, suggest |-> suggest]
    /\ CollectIdle
    /\ PassIdle
    /\ last = NoStep

SuggestNext ==
    \/ \E c \in Clusters, now \in AnalysisNows :
            ia.calls < MaxCalls /\ StartAnalysis(c, now)
    \/ AnalyzeTrends
    \/ StartSuggestions
    \/ SuggestForAlert
    \/ FinishSuggestions
    \/ FinishAnalysis

SpecSuggest == SuggestInit /\ [][SuggestNext]_vars

-----------------------------------------------------------------------------
(* prometheus-monitor: collectPrometheusMetrics *)

MaxSeries == 1

(* the catalog of queries, in the order they are run *)
queries ==
    <<[name |-> "node_cpu_usage", type |-> "cpu"],
      [name |-> "node_memory_usage", type |-> "memory"],
      [name |-> "node_disk_usage", type |-> "disk"],
      [name |-> "node_load_average", type |-> "cpu"],
      [name |-> "pod_count_total", type |-> "pod_count"],
      [name |-> "pod_cpu_usage", type |-> "cpu"],
      [name |-> "pod_memory_usage", type |-> "memory"],
      [name |-> "network_bytes_received", type |-> "network"],
      [name |-> "network_bytes_transmitted", type |-> "network"]>>

(* one element of data.data.result: a value that parses to a number, one
   that parses to NaN, or an element without a value array *)
SeriesShapes ==
    {[shape |-> "number", value |-> 50, instance |-> "n1"],
     [shape |-> "nan"], [shape |-> "malformed"]}

(* what a query yields: a non-OK status, a body whose status is not
   'success', a body without data.result, a rejected fetch or a body that
   is not JSON, or a result list *)
QueryResponses ==
    {[kind |-> "not_ok"], [kind |-> "bad_status"], [kind |-> "no_result"],
     [kind |-> "throws"]}
    \cup {[kind |-> "success", result |-> result] :
            result \in UNION {[1..n -> SeriesShapes] : n \in 0..MaxSeries}}

(* the loop over data.data.result: the rows stored, and whether an element
   threw before the end *)
RECURSIVE StoreSeries(_, _, _, _)
StoreSeries(rows, cluster, queryDef, result) ==
    IF result = <<>> THEN [rows |-> rows, thrown |-> FALSE]
    ELSE LET series == Head(result)
         IN IF series.shape = "malformed" THEN [rows |-> rows, thrown |-> TRUE]
            ELSE IF series.shape = "nan"
                 THEN StoreSeries(rows, cluster, queryDef, Tail(result))
                 ELSE StoreSeries(
                        Append(rows, [cluster_id |-> cluster,
                                      metric_type |-> queryDef.type,
                                      metric_name |-> queryDef.name,
                                      value |-> series.value,
                                      node_name |-> series.instance,
                                      age |-> 0]),
                        cluster, queryDef, Tail(result))

(* a failed query ends the whole loop *)
Break(index) == Len(queries) + 1

(* `continue`, and the end of the catch block: the loop takes the next
   query *)
Continue(index) == index + 1

(* serve: the loop over cluster.prometheus_targets reaches `target` *)
StartCollect(target) ==
    /\ cp.pc = "idle"
    /\ prometheus_targets[target].enabled
    /\ cp' = [IdleCp EXCEPT !.pc = "collect",
                            !.cluster = prometheus_targets[target].cluster_id,
                            !.target = target]
    /\ last' = NoStep
    /\ UNCHANGED <<thresholdVars, smartVars, healthVars, notifyVars,
                   analysisVars, prometheus_targets, passVars>>

(* one round of the loop over the catalog, `response` being what the
   target yields for the query *)
RunQuery(response) ==
    /\ cp.pc = "collect"
    /\ cp.next <= Len(queries)
    /\ LET queryDef == queries[cp.next]
           stored == IF response.kind = "success"
                     THEN StoreSeries(cluster_metrics, cp.cluster, queryDef,
                                      response.result)
                     ELSE [rows |-> cluster_metrics, thrown |-> FALSE]
           failed == response.kind # "success" \/ stored.thrown
       IN /\ cluster_metrics' = stored.rows
          /\ cp' = [cp EXCEPT
                      !.next = IF failed THEN Continue(@) ELSE @ + 1,
                      !.collectedMetrics = @ + Len(stored.rows) - Len(cluster_metrics),
                      !.failed = IF failed THEN @ \cup {cp.next} ELSE @,
                      !.answered = IF /\ response.kind = "success"
                                      /\ response.result # <<>>
                                      /\ response.result[1].shape = "number"
                                   THEN @ \cup {cp.next} ELSE @]
          /\ last' = [op |-> "query", index |-> cp.next, failed |-> failed,
                      response |-> response, before |-> cluster_metrics]
    /\ UNCHANGED <<monitoring_alerts, tm, smartVars, healthVars, notifyVars,
                   analysisVars, prometheus_targets, passVars>>

(* after the loop: the update of last_scrape_at and the return *)
UpdateLastScrape ==
    /\ cp.pc = "collect"
    /\ cp.next > Len(queries)
    /\ prometheus_targets' =
            [prometheus_targets EXCEPT ![cp.target].last_scrape_at = <<0>>]
    /\ cp' = [cp EXCEPT !.pc = "done"]
    /\ last' = [op |-> "scraped", before |-> prometheus_targets,
                target |-> cp.target]
    /\ UNCHANGED <<thresholdVars, smartVars, healthVars, notifyVars,
                   analysisVars, passVars>>

(* a target scraped never before, or some minutes ago; last_scrape_at is
   <<>> for NULL and <<age>> otherwise *)
ScrapeAges == {<<>>, <<7>>}

CollectInit ==
    /\ \E c \in Clusters, scraped \in ScrapeAges :
         prometheus_targets = <<[cluster_id |-> c, enabled |-> TRUE,
                                 last_scrape_at |-> scraped]>>
    /\ cp = IdleCp
    /\ TmInit
    /\ SmartIdle
    /\ HealthIdle
    /\ NotifyIdle
    /\ AnalysisIdle
    /\ PassIdle
    /\ last = NoStep

CollectNext ==
    \/ \E target \in DOMAIN prometheus_targets : StartCollect(target)
    \/ \E response \in QueryResponses : RunQuery(response)
    \/ UpdateLastScrape

SpecCollect == CollectInit /\ [][CollectNext]_vars

-----------------------------------------------------------------------------
(* serve of prometheus-monitor, monitor-clusters and intelligent-analysis:
   the loop over the clusters *)

MaxClusters == 2
MaxTargets == 2

EdgeFunctions == {"prometheus-monitor", "monitor-clusters", "intelligent-analysis"}

(* the enabled targets embedded in a cluster row of the inner join *)
EnabledTargets(cluster) ==
    {t \in DOMAIN prometheus_targets : /\ prometheus_targets[t].cluster_id = cluster
                                       /\ prometheus_targets[t].enabled}

(* the clusters query: the active clusters, for prometheus-monitor joined
   (inner) with their enabled targets; in stored order *)
SelectClusters(fn) ==
    LET Keep(row) == /\ row.is_active
                     /\ fn = "prometheus-monitor" => EnabledTargets(row.id) # {}
        rows == SelectSeq(cluster_configs, Keep)
    IN [i \in DOMAIN rows |-> rows[i].id]

(* the awaited calls of one round of the loop, in order *)
CallsOf(fn, cluster) ==
    IF fn = "prometheus-monitor"
    THEN LET targets == Ascending(EnabledTargets(cluster))
         IN [k \in DOMAIN targets |-> [stage |-> "metrics", target |-> targets[k]]]
            \o <<[stage |-> "healthScore", target |-> 0],
                 [stage |-> "alerts", target |-> 0]>>
    ELSE IF fn = "monitor-clusters"
    THEN <<[stage |-> "events", target |-> 0], [stage |-> "podHealth", target |-> 0],
           [stage |-> "alerts", target |-> 0]>>
    ELSE <<[stage |-> "correlation", target |-> 0], [stage |-> "trends", target |-> 0],
           [stage |-> "suggestions", target |-> 0]>>

(* what an awaited call gives: its data, the { error } its own catch
   returns, or an exception that leaves it *)
StageOutcomes == {"data", "error", "throws"}

(* the loop is given up after the catch *)
AbortPass(queue) == <<>>

(* after the catch block the loop takes the next cluster *)
AfterCatch(queue) == Tail(queue)

(* serve: the clusters query and the early return when it is empty *)
StartPass(fn) ==
    /\ pass.pc = "idle"
    /\ LET clusters == SelectClusters(fn)
       IN pass' = [IdlePass EXCEPT !.pc = IF clusters = <<>> THEN "done" ELSE "loop",
                                   !.fn = fn, !.queue = clusters]
    /\ last' = NoStep
    /\ UNCHANGED <<thresholdVars, smartVars, healthVars, notifyVars,
                   analysisVars, collectVars, cluster_configs>>

(* serve: one awaited call of the round for the cluster at the head of the
   queue, with the pushes that follow it *)
RunStage(outcome) ==
    /\ pass.pc = "loop"
    /\ pass.queue # <<>>
    /\ LET cluster == Head(pass.queue)
           calls == CallsOf(pass.fn, cluster)
           call == calls[pass.stage]
           failed == IF outcome = "data" THEN pass.failed
                     ELSE pass.failed \cup {cluster}
       IN pass' =
            IF outcome = "throws"
            THEN [pass EXCEPT
                    !.queue = AfterCatch(@), !.stage = 1, !.acc = <<>>,
                    !.failed = failed,
                    !.results = Append(@, [clusterId |-> cluster, kind |-> "error",
                                           target |-> 0, parts |-> <<>>])]
            ELSE IF call.stage = "metrics"
            THEN [pass EXCEPT
                    !.stage = @ + 1, !.failed = failed,
                    !.results = Append(@, [clusterId |-> cluster, kind |-> "target",
                                           target |-> call.target,
                                           parts |-> <<outcome>>])]
            ELSE IF pass.stage < Len(calls)
            THEN [pass EXCEPT !.stage = @ + 1, !.failed = failed,
                              !.acc = Append(@, outcome)]
            ELSE [pass EXCEPT
                    !.queue = Tail(@), !.stage = 1, !.acc = <<>>,
                    !.failed = failed,
                    !.results = Append(@, [clusterId |-> cluster, kind |-> "cluster",
                                           target |-> 0,
                                           parts |-> Append(pass.acc, outcome)])]
    /\ last' = NoStep
    /\ UNCHANGED <<thresholdVars, smartVars, healthVars, notifyVars,
                   analysisVars, collectVars, cluster_configs>>

(* serve: the loop is over, the response carries the results *)
FinishPass ==
    /\ pass.pc = "loop"
    /\ pass.queue = <<>>
    /\ pass' = [pass EXCEPT !.pc = "done"]
    /\ last' = NoStep
    /\ UNCHANGED <<thresholdVars, smartVars, healthVars, notifyVars,
                   analysisVars, collectVars, cluster_configs>>

ClusterIdOf == <<"c1", "c2", "c3">>

PassInit ==
    /\ \E active \in UNION {[1..n -> BOOLEAN] : n \in 0..MaxClusters} :
         cluster_configs = [i \in DOMAIN active |->
                                [id |-> ClusterIdOf[i], is_active |-> active[i]]]
    /\ prometheus_targets \in
         UNION {[1..n -> [cluster_id : {ClusterIdOf[i] : i \in 1..MaxClusters},
                          enabled : BOOLEAN, last_scrape_at : {<<>>}]] :
                n \in 0..MaxTargets}
    /\ cp = IdleCp
    /\ pass = IdlePass
    /\ TmInit
    /\ SmartIdle
    /\ HealthIdle
    /\ NotifyIdle
    /\ AnalysisIdle
    /\ last = NoStep

PassNext ==
    \/ \E fn \in EdgeFunctions : StartPass(fn)
    \/ \E outcome \in StageOutcomes : RunStage(outcome)
    \/ FinishPass

SpecPass == PassInit /\ [][PassNext]_vars

-----------------------------------------------------------------------------
(* Properties *)

SameAlertKey(a, b) ==
    /\ a.cluster_id = b.cluster_id
    /\ a.alert_type = b.alert_type
    /\ a.node_name = b.node_name

(* C1: monitoring_alerts never holds two unresolved rows for one
   (cluster_id, alert_type, node_name), the absent node_name included. *)
C1_AtMostOneUnresolvedAlert ==
    \A i, j \in DOMAIN monitoring_alerts :
        (/\ i # j
         /\ ~monitoring_alerts[i].resolved
         /\ ~monitoring_alerts[j].resolved)
        => ~SameAlertKey(monitoring_alerts[i], monitoring_alerts[j])

(* the threshold table of the specification: type, alert type, warning, critical *)
ThresholdTable ==
    {<<"cpu", "cpu_pressure", 80, 90>>,
     <<"memory", "memory_pressure", 85, 95>>,
     <<"disk", "disk_pressure", 90, 95>>}

ExpectedSeverity(type, value) ==
    IF \E t \in ThresholdTable : t[1] = type /\ value >= t[4] THEN "critical"
    ELSE IF \E t \in ThresholdTable : t[1] = type /\ value >= t[3] THEN "warning"
    ELSE "none"

(* C4: a sample at or above the critical threshold of its type is recorded as
   'critical' with the critical threshold, one between warning and critical
   as 'warning' with the warning threshold, and a sample below warning or of
   a type without a table raises nothing; a violating sample with no open
   alert for its key is inserted. *)
C4_SeverityMatchesThresholds ==
    /\ \A i \in DOMAIN monitoring_alerts :
            LET a == monitoring_alerts[i]
            IN \E t \in ThresholdTable :
                /\ a.alert_type = t[2]
                /\ \/ a.current_value >= t[4] /\ a.severity = "critical"
                                               /\ a.threshold_value = t[4]
                   \/ a.current_value >= t[3] /\ a.current_value < t[4]
                        /\ a.severity = "warning" /\ a.threshold_value = t[3]
    /\ last.op = "no_violation"
            => ExpectedSeverity(last.metric.metric_type, last.metric.value) = "none"
    /\ last.op \in {"found", "not_found", "insert"}
            => ExpectedSeverity(last.metric.metric_type, last.metric.value) # "none"
    /\ last.op = "insert"
            => /\ monitoring_alerts[last.id].current_value = last.metric.value
               /\ monitoring_alerts[last.id].severity =
                    ExpectedSeverity(last.metric.metric_type, last.metric.value)
    /\ last.op = "found"
            => /\ ~monitoring_alerts[last.id].resolved
               /\ monitoring_alerts[last.id].alert_type
                    = AlertTypeOf(last.metric.metric_type)
               /\ monitoring_alerts[last.id].cluster_id = last.metric.cluster_id
    /\ \A w \in Workers : tm[w].pc = "insert" => last.op = "not_found"

C4_Witness ==
    /\ last.op = "insert"
    /\ last.metric.metric_type = "memory"
    /\ last.metric.value = 95
    /\ monitoring_alerts[last.id].severity = "critical"

(* C5: a sample whose existence query finds an unresolved alert changes
   nothing in monitoring_alerts: no row is added and the found row keeps its
   severity, threshold_value, current_value, message and acknowledged flag. *)
C5_ExistingAlertLeftAlone ==
    [][last'.op = "found" => monitoring_alerts' = monitoring_alerts]_vars

C5_Witness ==
    /\ last.op = "found"
    /\ monitoring_alerts[last.id].severity = "warning"
    /\ monitoring_alerts[last.id].acknowledged
    /\ Classify(last.metric.metric_type, last.metric.value).severity = "critical"
    /\ monitoring_alerts[last.id].current_value # last.metric.value

SameSmartKey(a, b) ==
    /\ a.cluster_id = b.cluster_id
    /\ a.alert_type = b.alert_type
    /\ a.resource_name = b.resource_name

AtMostOneUnresolvedSmartAlert ==
    \A i, j \in DOMAIN smart_alerts :
        (i # j /\ ~smart_alerts[i].is_resolved /\ ~smart_alerts[j].is_resolved)
        => ~SameSmartKey(smart_alerts[i], smart_alerts[j])

(* C2: once concurrent passes for a cluster have finished, each alert key
   has at most one unresolved row in monitoring_alerts and in smart_alerts. *)
C2_ConcurrentPassesConverge ==
    NoPassRunning =>
        /\ C1_AtMostOneUnresolvedAlert
        /\ AtMostOneUnresolvedSmartAlert

(* C3: under sequential monitor-clusters passes and user resolves,
   smart_alerts holds at most one unresolved row per (cluster_id,
   alert_type, resource_name); a detection that finds an unresolved row
   writes its description and updated_at to that row, and a row is inserted
   only when no other unresolved row has its key. *)
C3_SmartAlertDedup ==
    /\ AtMostOneUnresolvedSmartAlert
    /\ last.op = "smart_update"
        => /\ smart_alerts[last.id].description = last.alertData.description
           /\ smart_alerts[last.id].age = 0
           /\ SameSmartKey(smart_alerts[last.id], last.alertData)
    /\ last.op = "smart_insert"
        => \A j \in DOMAIN smart_alerts :
              (j # last.id /\ SameSmartKey(smart_alerts[j], last.alertData))
              => smart_alerts[j].is_resolved

C3_Witness ==
    /\ last.op = "smart_update"
    /\ Len(smart_alerts) = 2
    /\ last.id = 2
    /\ smart_alerts[1].is_resolved
    /\ ~smart_alerts[2].is_resolved
    /\ SameSmartKey(smart_alerts[1], smart_alerts[2])
    /\ smart_alerts[2].description # smart_alerts[1].description

(* C6: acknowledged and resolved of a monitoring_alerts row, and is_resolved
   of a smart_alerts row, never go back from true to false, and no row
   disappears. *)
C6_FlagsOnlyRise ==
    [][/\ \A i \in DOMAIN monitoring_alerts :
            /\ i \in DOMAIN monitoring_alerts'
            /\ monitoring_alerts[i].acknowledged => monitoring_alerts'[i].acknowledged
            /\ monitoring_alerts[i].resolved => monitoring_alerts'[i].resolved
       /\ \A i \in DOMAIN smart_alerts :
            /\ i \in DOMAIN smart_alerts'
            /\ smart_alerts[i].is_resolved => smart_alerts'[i].is_resolved]_vars

C6_Witness ==
    /\ last.op = "smart_update"
    /\ smart_alerts[last.id].is_resolved
    /\ \E i \in DOMAIN monitoring_alerts : monitoring_alerts[i].acknowledged

(* the samples of one metric type among the metrics a health pass read *)
CountOfType(metrics, type) ==
    Cardinality({i \in DOMAIN metrics : metrics[i].metric_type = type})

RECURSIVE TotalOfType(_, _, _)
TotalOfType(metrics, type, i) ==
    IF i = 0 THEN 0
    ELSE (IF metrics[i].metric_type = type THEN metrics[i].value ELSE 0)
            + TotalOfType(metrics, type, i - 1)

NonNegative(x) == IF x < 0 THEN 0 ELSE x

(* score = max(0, 100 - (a - t) * 10) for a = total / n, cleared of
   denominators *)
IsDropFormula(score, total, n, t) ==
    score.num * n = score.den * NonNegative(100 * n - 10 * (total - t * n))

(* score = max(0, 100 - (a / t) * 50) for a = total / n, cleared of
   denominators *)
IsRatioFormula(score, total, n, t) ==
    score.num * n * t = score.den * NonNegative(100 * n * t - 50 * total)

ScoreAsSpecified(score, metrics, type, t) ==
    LET n == CountOfType(metrics, type)
        total == TotalOfType(metrics, type, Len(metrics))
    IN n > 0 =>
        /\ total >= t * n => IsDropFormula(score, total, n, t)
        /\ total < t * n => IsRatioFormula(score, total, n, t)

(* C7: for the recent samples of one type with average a and alert
   threshold t, calculateComponentScore is max(0, 100 - (a - t) * 10) when
   a >= t and max(0, 100 - (a / t) * 50) when a < t; a = t takes the first
   branch. *)
C7_ComponentScoreFormula ==
    last.op = "health_score" =>
        /\ ScoreAsSpecified(last.cpuScore, last.metrics, "cpu", CpuAlertThreshold)
        /\ ScoreAsSpecified(last.memoryScore, last.metrics, "memory",
                            MemoryAlertThreshold)
        /\ ScoreAsSpecified(last.diskScore, last.metrics, "disk", DiskAlertThreshold)

C7_Witness ==
    /\ last.op = "health_score"
    /\ CountOfType(last.metrics, "disk") = 1
    /\ TotalOfType(last.metrics, "disk", Len(last.metrics)) = DiskAlertThreshold
    /\ last.diskScore = Whole(100)
    /\ CountOfType(last.metrics, "memory") = 1
    /\ TotalOfType(last.metrics, "memory", Len(last.metrics)) = 80
    /\ last.memoryScore = [num |-> 900, den |-> 17]

(* the cpu samples a health pass read average exactly 80 *)
CpuAverageIs80 ==
    /\ last.op = "health_score"
    /\ CountOfType(last.metrics, "cpu") > 0
    /\ TotalOfType(last.metrics, "cpu", Len(last.metrics))
            = 80 * CountOfType(last.metrics, "cpu")

(* C8 as stated: with average 80 and threshold 80 the component score
   is 50. *)
C8_BoundaryScoreIs50 ==
    CpuAverageIs80 => last.cpuScore = Whole(50)

(* C8: with average 80 and threshold 80 the component score is 100, and
   the persisted cpu_score is 100.00. *)
C8_BoundaryScoreIs100 ==
    CpuAverageIs80 =>
        /\ last.cpuScore = Whole(100)
        /\ last.stored =>
             \E i \in DOMAIN cluster_health_scores :
                /\ cluster_health_scores[i].age = 0
                /\ cluster_health_scores[i].cpu_score = 10000

C8_Witness ==
    /\ CpuAverageIs80
    /\ CountOfType(last.metrics, "cpu") = 2
    /\ last.stored
    /\ \E i \in DOMAIN cluster_health_scores :
            cluster_health_scores[i].cpu_score = 10000

ScoreColumns(row) ==
    {row.overall_score, row.cpu_score, row.memory_score, row.disk_score,
     row.network_score, row.pod_health_score}

(* C9: every persisted health score row has overall_score and the cpu,
   memory, disk, network and pod_health scores within [0, 100], whatever
   the recent samples (negative values included) and the pod snapshot. *)
C9_ScoresInRange ==
    \A i \in DOMAIN cluster_health_scores :
        \A score \in ScoreColumns(cluster_health_scores[i]) :
            0 <= score /\ score <= 10000

(* position of a severity in the scale low < medium < high < critical *)
Rank(severity) ==
    CASE severity = "low" -> 0
      [] severity = "medium" -> 1
      [] severity = "high" -> 2
      [] severity = "critical" -> 3

(* the stored preferences the request reads that match a webhook: enabled
   slack preferences that are global or for the webhook's cluster *)
MatchingPreferences(webhook) ==
    {i \in DOMAIN notification_preferences :
        /\ notification_preferences[i].enabled
        /\ notification_preferences[i].notification_type = "slack"
        /\ notification_preferences[i].cluster_id \in {Null, webhook.cluster_id}}

Received(webhook) ==
    \E k \in DOMAIN last.enabledWebhooks : last.enabledWebhooks[k].id = webhook.id

(* C10: a webhook whose matching preference (the first one the store
   returns) has threshold T receives an event of severity S iff
   index(S) >= index(T) in low < medium < high < critical; a webhook with
   no matching preference receives every severity. *)
C10_SeverityFilter ==
    (/\ last.op = "dispatch"
     /\ ~last.prefError
     /\ last.severity \in {"low", "medium", "high", "critical"}) =>
        \A w \in DOMAIN slack_webhooks :
            slack_webhooks[w].enabled =>
                LET matching == MatchingPreferences(slack_webhooks[w])
                    first == CHOOSE i \in matching : \A j \in matching : i <= j
                    T == notification_preferences[first].severity_threshold
                IN IF matching = {} THEN Received(slack_webhooks[w])
                   ELSE Received(slack_webhooks[w]) <=> Rank(last.severity) >= Rank(T)

C10_Witness ==
    /\ last.op = "dispatch"
    /\ ~last.prefError
    /\ last.severity = "medium"
    /\ Len(slack_webhooks) = 2
    /\ slack_webhooks[1].enabled
    /\ slack_webhooks[2].enabled
    /\ MatchingPreferences(slack_webhooks[2]) = {}
    /\ \E i \in MatchingPreferences(slack_webhooks[1]) :
            notification_preferences[i].severity_threshold = "high"
    /\ ~Received(slack_webhooks[1])
    /\ Received(slack_webhooks[2])

(* the number of posts a request made to one webhook *)
PostsTo(id) == Cardinality({k \in DOMAIN last.posts : last.posts[k] = id})

FilteredIds == {last.enabledWebhooks[i].id : i \in DOMAIN last.enabledWebhooks}

(* C11: each webhook that passed the severity filter is posted to exactly
   once and no other webhook is; a post that fails leaves the posts to
   the other webhooks fulfilled; the response reports success, and
   notifications_sent + failures is the number of filtered webhooks. *)
C11_EachWebhookOnce ==
    last.op = "sent" =>
        /\ \A id \in FilteredIds : PostsTo(id) = 1
        /\ \A k \in DOMAIN last.posts : last.posts[k] \in FilteredIds
        /\ \A i \in DOMAIN last.enabledWebhooks :
              last.outcome[last.enabledWebhooks[i].id] = "ok"
                  <=> last.results[i] = "fulfilled"
        /\ last.response.success
        /\ last.response.notifications_sent
              = Cardinality({id \in FilteredIds : last.outcome[id] = "ok"})
        /\ last.response.notifications_sent + last.response.failures
              = Cardinality(FilteredIds)

C11_Witness ==
    /\ last.op = "sent"
    /\ Len(last.enabledWebhooks) = 2
    /\ last.outcome[last.enabledWebhooks[1].id] = "throws"
    /\ last.outcome[last.enabledWebhooks[2].id] = "ok"
    /\ last.results = <<"rejected", "fulfilled">>
    /\ last.response.notifications_sent = 1
    /\ last.response.failures = 1

(* C12: every alert written by a monitoring pass (a monitoring_alerts row
   inserted, a smart_alerts row inserted or updated) is followed by an
   invocation of the dispatcher for that alert: once the passes and the
   requests in progress have finished, slack-integration has been called
   with every stored alert. *)
C12_AlertWritesAreDispatched ==
    (NoPassRunning /\ si.pc = "idle") =>
        /\ \A i \in DOMAIN monitoring_alerts : <<"monitoring_alerts", i>> \in notified
        /\ \A i \in DOMAIN smart_alerts : <<"smart_alerts", i>> \in notified

(* the step appended one event_correlations row, for the window at hand *)
CorrelationAdded ==
    /\ Len(event_correlations) = Len(last.before) + 1
    /\ SubSeq(event_correlations, 1, Len(last.before)) = last.before
    /\ event_correlations[Len(event_correlations)].primary_event_id
            = last.events[1].id

(* C13: performEventCorrelation never persists an event_correlations row
   for a time window holding exactly one event, whatever the model call
   would yield, and for a window of two or more events (the answer having
   the shape confidence / root cause / type) it persists a row exactly when
   the confidence is strictly greater than 0.7: 0.70 gives no row, 0.71
   gives one. *)
C13_CorrelationCutoff ==
    last.op = "correlate" =>
        /\ Len(last.events) = 1 => event_correlations = last.before
        /\ (Len(last.events) >= 2 /\ last.analysis.type # Null) =>
                (CorrelationAdded <=> 10 * last.analysis.confidence > 7 * 100)
        /\ CorrelationAdded \/ event_correlations = last.before

C13_Witness ==
    /\ last.op = "correlate"
    /\ Len(last.events) >= 2
    /\ last.analysis.confidence = 71
    /\ CorrelationAdded
    /\ event_correlations[Len(event_correlations)].confidence_score = 71

(* C14: performEventCorrelation groups the events it reads into 5-minute
   buckets that do not overlap: every event is in exactly one bucket, the
   one starting at floor(t / 5) * 5 for its timestamp t, an event exactly
   on a bucket boundary included, so two events share a bucket exactly
   when their floor(t / 5) is the same. *)
C14_FixedBuckets ==
    last.op = "group" =>
        LET Time(e) == last.now - e.age
            Holds(k, e) == \E i \in DOMAIN last.windows[k].events :
                                last.windows[k].events[i].id = e.id
        IN /\ \A n \in DOMAIN last.events :
                LET e == last.events[n]
                IN /\ Cardinality({k \in DOMAIN last.windows : Holds(k, e)}) = 1
                   /\ \A k \in DOMAIN last.windows :
                        Holds(k, e) =>
                            /\ last.windows[k].startTime = 5 * (Time(e) \div 5)
                            /\ Cardinality({i \in DOMAIN last.windows[k].events :
                                    last.windows[k].events[i].id = e.id}) = 1
           /\ \A m, n \in DOMAIN last.events :
                (\E k \in DOMAIN last.windows :
                    Holds(k, last.events[m]) /\ Holds(k, last.events[n]))
                <=> (Time(last.events[m]) \div 5 = Time(last.events[n]) \div 5)
           /\ \A j, k \in DOMAIN last.windows :
                j # k => last.windows[j].startTime # last.windows[k].startTime

C14_Witness ==
    /\ last.op = "group"
    /\ Len(last.windows) >= 2
    /\ \E m, n \in DOMAIN last.events :
            /\ (last.now - last.events[m].age) % 5 = 0
            /\ last.events[n].age = last.events[m].age + 1

(* C15: for every (pod_name, namespace) group with at least 2 pod_health
   samples of the last 24 hours for which the trend model returns a
   significance above 0.5, analyzePodRestartTrends upserts a
   pod_restart_trends row keyed by cluster, pod, namespace and the current
   hour, carrying the latest sample's restart_count and the model's
   direction and score. *)
C15_TrendRowsUpserted ==
    last.op = "trends" =>
        \A g \in DOMAIN last.podGroups :
            LET samples == last.podGroups[g].items
            IN (/\ Len(samples) >= 2
                /\ ai.trend.kind = "json"
                /\ 10 * ai.trend.json.significance > 5 * 100)
               => \E i \in DOMAIN pod_restart_trends :
                    /\ pod_restart_trends[i].cluster_id = last.cluster
                    /\ pod_restart_trends[i].pod_name = samples[1].pod_name
                    /\ pod_restart_trends[i].time_window = 60 * (last.now \div 60)
                    /\ pod_restart_trends[i].restart_count
                            = samples[Len(samples)].restart_count
                    /\ pod_restart_trends[i].trend_direction = ai.trend.json.direction
                    /\ pod_restart_trends[i].trend_score = ai.trend.json.score

(* C16: a second generateIntelligentSuggestions call for the same still
   unresolved alerts, with no new data and the suggestion model answering
   as it did the first time, persists no further intelligent_suggestions
   row; generation is skipped for an alert that has at least one row. *)
C16_SecondCallAddsNothing ==
    [][/\ ia.calls >= 1 => intelligent_suggestions' = intelligent_suggestions
       /\ (/\ last'.op = "suggest"
           /\ \E i \in DOMAIN intelligent_suggestions :
                intelligent_suggestions[i].alert_id = last'.alert)
          => intelligent_suggestions' = intelligent_suggestions]_vars

C16_Witness ==
    /\ ia.calls = 1
    /\ last.op = "suggest"
    /\ last.skipped
    /\ last.reply.kind = "json"
    /\ last.reply.json.items # <<>>
    /\ \E i \in DOMAIN intelligent_suggestions :
            intelligent_suggestions[i].alert_id = last.alert

(* the answer of the suggestion model is a failure: the call errors, or the
   content is not JSON, or it is JSON of another shape than a list *)
SuggestionFailure(reply) ==
    \/ reply.kind # "json"
    \/ ~reply.json.iterable

(* C17: when a model call errors or returns output that cannot be parsed
   into the expected shape, no row is persisted for that alert, the
   remaining alerts of the cluster are still processed, and the failure is
   not reported as an error in the cluster's result. *)
C17_OracleFailureIsContained ==
    /\ (last.op = "suggest" /\ SuggestionFailure(last.reply))
            => intelligent_suggestions = last.before
    /\ ia.pc = "done"
            => /\ ia.alerts = <<>>
               /\ "error" \notin DOMAIN ia.result.suggestions

IsPrefix(s, t) == Len(s) <= Len(t) /\ SubSeq(t, 1, Len(s)) = s

(* C18: in collectPrometheusMetrics a query that fails (non-OK status, a
   body without status 'success' or without a result, a thrown fetch or
   parse error) is skipped without aborting the collection: the loop goes
   on to the next query, every query of the catalog has been run when the
   loop is left, and the samples the other queries returned are stored. *)
C18_FailedQueryIsSkipped ==
    /\ (last.op = "query" /\ last.response.kind # "success")
            => /\ cp.pc = "collect"
               /\ cp.next = last.index + 1
               /\ cluster_metrics = last.before
    /\ (last.op = "query" /\ last.failed)
            => cp.next = last.index + 1 /\ IsPrefix(last.before, cluster_metrics)
    /\ cp.pc = "done"
            => /\ cp.failed \cup {i \in 1..9 : i < cp.next} = 1..9
               /\ \A i \in cp.answered :
                    \E k \in DOMAIN cluster_metrics :
                        /\ cluster_metrics[k].metric_name = queries[i].name
                        /\ cluster_metrics[k].cluster_id = cp.cluster

C18_Witness ==
    /\ cp.pc = "done"
    /\ 1 \in cp.failed
    /\ 5 \in cp.failed
    /\ cp.answered = {2, 9}
    /\ Len(cluster_metrics) = 2

(* C20: collectPrometheusMetrics updates a target's last_scrape_at after,
   and only after, a successful collection pass for the target: it is
   written once all queries of the catalog have been attempted, and a pass
   in which no query succeeded does not advance it. *)
C20_ScrapeTimeNeedsSuccess ==
    last.op = "scraped" =>
        /\ cp.next > 9
        /\ cp.failed = 1..9 => prometheus_targets = last.before

ActiveClusters == {cluster_configs[i].id : i \in {k \in DOMAIN cluster_configs :
                                                    cluster_configs[k].is_active}}

(* the clusters a pass works on: the active ones, and for prometheus-monitor
   those of them with an enabled prometheus target *)
ClustersOfPass ==
    {c \in ActiveClusters :
        pass.fn = "prometheus-monitor" =>
            \E t \in DOMAIN prometheus_targets :
                /\ prometheus_targets[t].cluster_id = c
                /\ prometheus_targets[t].enabled}

EntriesOf(c) == {k \in DOMAIN pass.results : pass.results[k].clusterId = c}

(* the finished pass holds, for every cluster of `clusters`, one closing
   entry: an error entry or the data of all its stages; a cluster that met
   a failure has the failure in its entries, a cluster that met none has
   plain data; and no failure of an earlier cluster kept a later one from
   being worked on *)
IsolatedResults(clusters) ==
    \A c \in clusters :
        LET closing == {k \in EntriesOf(c) : pass.results[k].kind # "target"}
            stages == IF pass.fn = "prometheus-monitor" THEN 2 ELSE 3
        IN /\ Cardinality(closing) = 1
           /\ \A k \in closing :
                \/ pass.results[k].kind = "error"
                \/ /\ pass.results[k].kind = "cluster"
                   /\ Len(pass.results[k].parts) = stages
           /\ c \in pass.failed
                => \E k \in EntriesOf(c) :
                        \/ pass.results[k].kind = "error"
                        \/ \E n \in DOMAIN pass.results[k].parts :
                                pass.results[k].parts[n] = "error"
           /\ c \notin pass.failed
                => \A k \in EntriesOf(c) :
                        /\ pass.results[k].kind # "error"
                        /\ \A n \in DOMAIN pass.results[k].parts :
                                pass.results[k].parts[n] = "data"

(* C19 as stated: in each pass the clusters are processed independently: a
   failure while processing one cluster is recorded in that cluster's entry
   of the result set, every later cluster is still fully processed, and
   the pass ends with a result (data or error) for every active cluster. *)
C19_ResultForEveryActiveCluster ==
    pass.pc = "done" => IsolatedResults(ActiveClusters)

(* C19, amended: the same, for every cluster the pass works on: every
   active cluster in monitor-clusters and intelligent-analysis, every
   active cluster with an enabled prometheus target in prometheus-monitor. *)
C19_ResultForEveryClusterOfPass ==
    pass.pc = "done" => IsolatedResults(ClustersOfPass)

C19_Witness ==
    /\ pass.pc = "done"
    /\ pass.fn = "prometheus-monitor"
    /\ pass.failed = {"c1"}
    /\ \E k \in DOMAIN pass.results :
            pass.results[k].clusterId = "c1" /\ pass.results[k].kind = "error"
    /\ \E k \in DOMAIN pass.results :
            /\ pass.results[k].clusterId = "c2"
            /\ pass.results[k].kind = "cluster"
            /\ pass.results[k].parts = <<"data", "data">>

(* the pod_health rows of one (cluster_id, pod_name, container_name) *)
PodHealthRowsOf(rows, cluster, pod, container) ==
    {i \in DOMAIN rows : /\ rows[i].cluster_id = cluster
                         /\ rows[i].pod_name = pod
                         /\ rows[i].container_name = container}

SnapshotFields(row) ==
    <<row.restart_count, ToString(row.exit_code), row.exit_reason,
      row.oom_killed, row.status>>

(* C21: pod_health holds one row per observed container; a step that upserts
   a container's status leaves that row with the restart_count, exit_code,
   exit_reason, oom_killed and status of the snapshot just taken, where
   oom_killed is true iff the last termination reason is 'OOMKilled'; every
   other step, and every other key, keeps the fields it had. *)
C21_PodHealthIsLatestSnapshot ==
    [][\A i \in DOMAIN pod_health' :
        LET row == pod_health'[i]
            same == PodHealthRowsOf(pod_health', row.cluster_id, row.pod_name,
                                    row.container_name)
            before == PodHealthRowsOf(pod_health, row.cluster_id, row.pod_name,
                                      row.container_name)
            observed == /\ last'.op = "pod"
                        /\ last'.pod_name = row.pod_name
                        /\ last'.container_name = row.container_name
        IN /\ same = {i}
           /\ observed =>
                /\ row.restart_count = last'.restartCount
                /\ ToString(row.exit_code) = ToString(last'.terminated.exitCode)
                /\ row.exit_reason = last'.terminated.reason
                /\ row.oom_killed = (last'.terminated.reason = "OOMKilled")
                /\ row.status = last'.phase
           /\ ~observed =>
                /\ before # {}
                /\ \A k \in before :
                        SnapshotFields(pod_health[k]) = SnapshotFields(row)]_vars

(* a container whose OOM kill an earlier pass alerted on is seen again,
   running clean, beside another pod's row: its one row shows the later
   snapshot *)
C21_Witness ==
    /\ last.op = "pod"
    /\ last.pod_name = "p2"
    /\ last.terminated.reason = Null
    /\ last.restartCount = 0
    /\ Len(pod_health) = 2
    /\ \E a \in DOMAIN smart_alerts :
        /\ smart_alerts[a].alert_type = "oomkill"
        /\ smart_alerts[a].resource_name = "p2"
    /\ \E i \in DOMAIN pod_health :
        /\ pod_health[i].pod_name = "p2"
        /\ pod_health[i].restart_count = 0
        /\ ~pod_health[i].oom_killed

(* the cluster_events rows of one (cluster_id, event_uid) *)
EventRowsOf(rows, cluster, uid) ==
    {i \in DOMAIN rows : rows[i].cluster_id = cluster /\ rows[i].event_uid = uid}

(* the order of last_timestamp values, NULL below every time *)
NotLater(a, b) == a = <<>> \/ (b # <<>> /\ a[1] <= b[1])

(* C22: cluster_events holds a single row per (cluster_id, event_uid), and no
   step of a sequence of monitorClusterEvents passes lowers the count or the
   last_timestamp of a stored event. *)
C22_EventCountsOnlyRise ==
    [][/\ \A i \in DOMAIN cluster_events' :
            EventRowsOf(cluster_events', cluster_events'[i].cluster_id,
                        cluster_events'[i].event_uid) = {i}
       /\ \A k \in DOMAIN cluster_events :
            \E i \in EventRowsOf(cluster_events', cluster_events[k].cluster_id,
                                 cluster_events[k].event_uid) :
                /\ cluster_events'[i].count >= cluster_events[k].count
                /\ NotLater(cluster_events[k].last_timestamp,
                            cluster_events'[i].last_timestamp)]_vars

(* an event stored by an earlier pass is observed again after its third
   occurrence, beside an event whose items carry no count *)
C22_Witness ==
    /\ last.op = "event"
    /\ last.event.count = MaxOccurrences
    /\ Len(cluster_events) = 2
    /\ \E i \in DOMAIN cluster_events :
        /\ cluster_events[i].event_uid = last.event.uid
        /\ cluster_events[i].age > 0
        /\ cluster_events[i].count = MaxOccurrences
        /\ cluster_events[i].last_timestamp = <<MaxOccurrences>>
    /\ \E i \in DOMAIN cluster_events :
        /\ cluster_events[i].event_uid # last.event.uid
        /\ api_events[cluster_events[i].event_uid].count > 1
        /\ cluster_events[i].count = 1
        /\ cluster_events[i].last_timestamp = <<>>

(* the unresolved monitoring_alerts rows of a sample's
   (cluster_id, alert_type, node_name) *)
OpenAlertsOf(alerts, metric) ==
    {i \in DOMAIN alerts :
        /\ alerts[i].cluster_id = metric.cluster_id
        /\ alerts[i].alert_type = AlertTypeOf(metric.metric_type)
        /\ alerts[i].node_name = metric.node_name
        /\ ~alerts[i].resolved}

(* C23: with passes one after another and samples that carry a node_name, a
   violating sample inserts a row only when its (cluster_id, alert_type,
   node_name) had no unresolved row, so no key ever has a second one. *)
C23_NodeAlertInsertedOnce ==
    [][/\ last'.op = "insert"
            => /\ OpenAlertsOf(monitoring_alerts, last'.metric) = {}
               /\ OpenAlertsOf(monitoring_alerts', last'.metric) = {last'.id}
       /\ last'.op # "insert" => Len(monitoring_alerts') = Len(monitoring_alerts)]_vars

(* a later violating sample of a node finds the node's open alert, which
   was raised for another value and acknowledged since *)
C23_Witness ==
    /\ last.op = "found"
    /\ last.metric.node_name = "n1"
    /\ OpenAlertsOf(monitoring_alerts, last.metric) = {last.id}
    /\ monitoring_alerts[last.id].current_value # last.metric.value
    /\ monitoring_alerts[last.id].acknowledged
    /\ Len(monitoring_alerts) = 1

OpenRowsLike(alerts, row) ==
    {i \in DOMAIN alerts : SameAlertKey(alerts[i], row) /\ ~alerts[i].resolved}

OpenSmartRowsLike(alerts, row) ==
    {i \in DOMAIN alerts : SameSmartKey(alerts[i], row) /\ ~alerts[i].is_resolved}

(* C24: once a dedup key has two or more unresolved rows in monitoring_alerts
   or in smart_alerts, no step adds another unresolved row for that key. *)
C24_DuplicatesDoNotGrow ==
    [][/\ \A i \in DOMAIN monitoring_alerts :
            Cardinality(OpenRowsLike(monitoring_alerts, monitoring_alerts[i])) >= 2
            => Cardinality(OpenRowsLike(monitoring_alerts', monitoring_alerts[i]))
                    <= Cardinality(OpenRowsLike(monitoring_alerts, monitoring_alerts[i]))
       /\ \A i \in DOMAIN smart_alerts :
            Cardinality(OpenSmartRowsLike(smart_alerts, smart_alerts[i])) >= 2
            => Cardinality(OpenSmartRowsLike(smart_alerts', smart_alerts[i]))
                    <= Cardinality(OpenSmartRowsLike(smart_alerts, smart_alerts[i]))]_vars

(* x <= y for two scores *)
ScoreAtMost(x, y) == x.num * y.den <= y.num * x.den

(* the score just computed for `type` is not below the score the same
   threshold gives to any higher average *)
FallsWithPressure(score, metrics, type, alertThreshold) ==
    LET n == CountOfType(metrics, type)
        total == TotalOfType(metrics, type, Len(metrics))
    IN (n > 0 /\ total >= 0) =>
        \A higher \in HealthValues :
            higher * n >= total =>
                ScoreAtMost(calculateComponentScore(
                                <<[metric_type |-> type, value |-> higher]>>,
                                type, alertThreshold),
                            score)

(* C25: for a fixed threshold the component score does not rise with the
   average: the score of the samples a health pass read is at least the
   score of every higher average, across the threshold as well. *)
C25_ScoreFallsWithPressure ==
    last.op = "health_score" =>
        /\ FallsWithPressure(last.cpuScore, last.metrics, "cpu", CpuAlertThreshold)
        /\ FallsWithPressure(last.memoryScore, last.metrics, "memory",
                             MemoryAlertThreshold)
        /\ FallsWithPressure(last.diskScore, last.metrics, "disk",
                             DiskAlertThreshold)

(* the stored slack preferences, enabled or not, that are global or for the
   webhook's cluster *)
StoredPreferencesFor(webhook) ==
    {i \in DOMAIN notification_preferences :
        /\ notification_preferences[i].notification_type = "slack"
        /\ notification_preferences[i].cluster_id \in {Null, webhook.cluster_id}}

(* C26: a webhook whose only matching preferences are disabled is sent no
   event, of any severity. *)
C26_DisabledPreferenceSilences ==
    last.op = "dispatch" =>
        \A k \in DOMAIN last.enabledWebhooks :
            LET stored == StoredPreferencesFor(last.enabledWebhooks[k])
            IN ~(/\ stored # {}
                 /\ \A i \in stored : ~notification_preferences[i].enabled)

(* C27: a webhook configured for one cluster is sent only the events that
   concern that cluster. *)
C27_ClusterWebhookGetsOwnEvents ==
    last.op = "dispatch" =>
        \A k \in DOMAIN last.enabledWebhooks :
            last.enabledWebhooks[k].cluster_id # Null
                => last.enabledWebhooks[k].cluster_id = last.cluster_name

(* C28: an enabled webhook whose matching preference has threshold 'low' is
   sent every event, whatever severity the payload carries. *)
C28_LowAdmitsEverySeverity ==
    (last.op = "dispatch" /\ ~last.prefError) =>
        \A w \in DOMAIN slack_webhooks :
            LET matching == MatchingPreferences(slack_webhooks[w])
            IN (/\ slack_webhooks[w].enabled
                /\ matching # {}
                /\ \A i \in matching :
                        notification_preferences[i].severity_threshold = "low")
               => Received(slack_webhooks[w])

(* C29: while a pod's restart_count stays what it was, no pass inserts a new
   crash_loop alert for the pod once the user has resolved one, whether or
   not the pod is still in the snapshot. *)
C29_ResolvedCrashLoopStaysQuiet ==
    (last.op = "smart_insert" /\ last.alertData.alert_type = "crash_loop") =>
        ~\E i \in DOMAIN smart_alerts :
            /\ i # last.id
            /\ smart_alerts[i].is_resolved
            /\ smart_alerts[i].alert_type = "crash_loop"
            /\ SameSmartKey(smart_alerts[i], last.alertData)

(* C30: during a pass alertsCreated grows exactly by the smart_alerts rows
   the pass inserts, so the count returned at its end is the number of rows
   newly inserted; a detection that updates an existing alert adds nothing. *)
C30_CountsInsertedRows ==
    [][sm'[1].pc # "idle"
        => sm'[1].alertsCreated - sm[1].alertsCreated
                = Len(smart_alerts') - Len(smart_alerts)]_vars

====
